---- MODULE Spec2Model ----
(***************************************************************************)
(* Model of the retrieval-deduplication pipeline of distill:               *)
(*   pkg/math        CosineDistance                                        *)
(*   pkg/contextlab  Clusterer, Selector, MMR, Broker                      *)
(*                                                                         *)
(* Conventions.                                                            *)
(*  - Positions in a slice are 1-based here; Go index i is position i+1.   *)
(*    The Go sentinel index -1 ("no pair found") is NoIndex = 0.  Cluster  *)
(*    ids keep the Go values (0-based, -1 = unassigned).                   *)
(*  - Distances, similarities and thresholds are integers in units of      *)
(*    1/DistUnit (2.0 is MaxDist = 200).  The embedding domain holds       *)
(*    vectors with integer norms (1, 5 or 0), so every cosine distance is  *)
(*    an exact multiple of 1/DistUnit and no rounding is introduced.       *)
(*  - A linkage distance is a fraction <<num, den>>, den > 0, compared by  *)
(*    cross-multiplication, so the average linkage is exact as well.       *)
(***************************************************************************)
EXTENDS Integers, Sequences, FiniteSets, TLC

\* ------------------------------------------------------------------ bounds
MaxChunks == 3
MaxCandidates == 3

\* --------------------------------------------------------- program constants
DistUnit == 100
MaxDist == 200
DefaultThreshold == 15
NoIndex == 0
Unassigned == -1

\* ---------------------------------------------------------------- utilities
Range(s) == {s[i] : i \in 1..Len(s)}

Min2(a, b) == IF a < b THEN a ELSE b

RECURSIVE SumSeq(_)
SumSeq(s) == IF s = <<>> THEN 0 ELSE Head(s) + SumSeq(Tail(s))

RECURSIVE SeqsUpTo(_, _)
\* all sequences over S of length at most n
SeqsUpTo(S, n) ==
  IF n = 0 THEN {<<>>}
  ELSE LET shorter == SeqsUpTo(S, n - 1)
       IN  shorter \cup {Append(s, x) : s \in {t \in shorter : Len(t) = n - 1}, x \in S}

\* ------------------------------------------------------------ numeric kernel
\* integer square root (exact on the perfect squares the embedding domain yields)
RECURSIVE ISqrtFrom(_, _)
ISqrtFrom(n, r) == IF (r + 1) * (r + 1) > n THEN r ELSE ISqrtFrom(n, r + 1)

ISqrt(n) == ISqrtFrom(n, 0)

Dot(a, b, n) == SumSeq([i \in 1..n |-> a[i] * b[i]])

\* math.CosineDistance, result in units of 1/DistUnit
CosineDistance(a, b) ==
  IF Len(a) = 0 \/ Len(b) = 0 THEN MaxDist
  ELSE LET n == Min2(Len(a), Len(b))
           dot == Dot(a, b, n)
           magA == Dot(a, a, n)
           magB == Dot(b, b, n)
           denom == ISqrt(magA * magB)
       IN  IF denom = 0 THEN MaxDist
           ELSE LET similarity == (DistUnit * dot) \div denom
                    clamped == IF similarity > DistUnit THEN DistUnit
                               ELSE IF similarity < -DistUnit THEN -DistUnit
                               ELSE similarity
                IN  DistUnit - clamped

\* ------------------------------------------------------------------- chunks
EmptyEmb == <<>>
ZeroEmb == <<0, 0>>
E1 == <<1, 0>>
E2 == <<0, 1>>
NegE1 == <<-1, 0>>
V43 == <<4, 3>>
V34 == <<3, 4>>

\* types.NewChunk: a chunk as handed to the pipeline (ClusterID -1)
NewChunk(id, textLen, embedding, score) ==
  [ID |-> id, TextLen |-> textLen, Embedding |-> embedding, Score |-> score,
   ClusterID |-> Unassigned]

\* ------------------------------------------------------------------ fractions
FracLess(x, y) == x[1] * y[2] < y[1] * x[2]
FracEq(x, y) == x[1] * y[2] = y[1] * x[2]
Whole(d) == <<d, 1>>

\* ------------------------------------------------------------------ clusterer
Linkages == {"single", "complete", "average"}

\* NewClusterer: defaults for Threshold <= 0 and the empty linkage
NewClusterer(cfg) ==
  [Threshold |-> IF cfg.Threshold <= 0 THEN DefaultThreshold ELSE cfg.Threshold,
   MinClusters |-> cfg.MinClusters,
   MaxClusters |-> cfg.MaxClusters,
   Linkage |-> IF cfg.Linkage = "" THEN "average" ELSE cfg.Linkage]

\* a distance matrix that takes every embedding for a missing one
computeDistanceMatrixAllMissing(chunks) ==
  [i \in 1..Len(chunks) |-> [j \in 1..Len(chunks) |-> IF i = j THEN 0 ELSE MaxDist]]

\* Clusterer.computeDistanceMatrix: symmetric, zero diagonal
computeDistanceMatrix(chunks) ==
  [i \in 1..Len(chunks) |-> [j \in 1..Len(chunks) |->
     IF i = j THEN 0
     ELSE IF Len(chunks[i].Embedding) = 0 \/ Len(chunks[j].Embedding) = 0 THEN MaxDist
     ELSE CosineDistance(chunks[i].Embedding, chunks[j].Embedding)]]

\* the cross-cluster pair distances of two nodes
CrossDists(a, b, distMatrix) ==
  {distMatrix[a.members[x]][b.members[y]] : x \in 1..Len(a.members), y \in 1..Len(b.members)}

SetMin(S) == CHOOSE m \in S : \A x \in S : m <= x
SetMax(S) == CHOOSE m \in S : \A x \in S : m >= x

\* a clusterDistance whose "single" case takes the maximum pair distance
clusterDistanceSingleAsComplete(a, b, distMatrix, linkage) ==
  IF linkage = "single" \/ linkage = "complete"
    THEN Whole(SetMax(CrossDists(a, b, distMatrix) \cup {0}))
  ELSE LET count == Len(a.members) * Len(b.members)
           sum == SumSeq([k \in 1..count |->
                    distMatrix[a.members[((k - 1) \div Len(b.members)) + 1]]
                              [b.members[((k - 1) % Len(b.members)) + 1]]])
       IN  IF count = 0 THEN Whole(MaxDist) ELSE <<sum, count>>

\* Clusterer.clusterDistance
clusterDistance(a, b, distMatrix, linkage) ==
  IF linkage = "single"
    THEN Whole(SetMin(CrossDists(a, b, distMatrix) \cup {MaxDist}))
  ELSE IF linkage = "complete"
    THEN Whole(SetMax(CrossDists(a, b, distMatrix) \cup {0}))
  ELSE LET count == Len(a.members) * Len(b.members)
           sum == SumSeq([k \in 1..count |->
                    distMatrix[a.members[((k - 1) \div Len(b.members)) + 1]]
                              [b.members[((k - 1) % Len(b.members)) + 1]]])
       IN  IF count = 0 THEN Whole(MaxDist) ELSE <<sum, count>>

\* a singleton node for every chunk (Cluster, "Initialize each chunk as its own cluster");
\* a centroid is kept as the pair (component sums, member count), i.e. the mean sum/n
InitNodes(chunks) ==
  [i \in 1..Len(chunks) |->
     [id |-> i, members |-> <<i>>,
      centroid |-> [sum |-> chunks[i].Embedding, n |-> 1],
      active |-> TRUE]]

\* the search with "<=" in place of "<": the last closest pair of the scan is kept
FindClosestLastTie(nodes, distMatrix, linkage) ==
  LET n == Len(nodes)
      Pairs == {p \in (1..n) \X (1..n) : p[1] < p[2] /\ nodes[p[1]].active /\ nodes[p[2]].active}
      D(p) == clusterDistance(nodes[p[1]], nodes[p[2]], distMatrix, linkage)
      Below == {p \in Pairs : FracLess(D(p), Whole(MaxDist))}
  IN  IF Below = {}
        THEN [minDist |-> Whole(MaxDist), minI |-> NoIndex, minJ |-> NoIndex]
        ELSE LET Best == {p \in Below : \A q \in Below : ~FracLess(D(q), D(p))}
                 last == CHOOSE p \in Best : \A q \in Best :
                           q[1] < p[1] \/ (q[1] = p[1] /\ q[2] <= p[2])
             IN  [minDist |-> D(last), minI |-> last[1], minJ |-> last[2]]

\* the search for the closest active pair in Cluster: row-major scan, strict "<",
\* starting from minDist = 2.0 and minI = minJ = -1
FindClosest(nodes, distMatrix, linkage) ==
  LET n == Len(nodes)
      Pairs == {p \in (1..n) \X (1..n) : p[1] < p[2] /\ nodes[p[1]].active /\ nodes[p[2]].active}
      D(p) == clusterDistance(nodes[p[1]], nodes[p[2]], distMatrix, linkage)
      Below == {p \in Pairs : FracLess(D(p), Whole(MaxDist))}
  IN  IF Below = {}
        THEN [minDist |-> Whole(MaxDist), minI |-> NoIndex, minJ |-> NoIndex]
        ELSE LET Best == {p \in Below : \A q \in Below : ~FracLess(D(q), D(p))}
                 first == CHOOSE p \in Best : \A q \in Best :
                            p[1] < q[1] \/ (p[1] = q[1] /\ p[2] <= q[2])
             IN  [minDist |-> D(first), minI |-> first[1], minJ |-> first[2]]

\* a merge that forgets b's members
mergeClustersDropsMembers(a, b, chunks) == [panicked |-> FALSE, node |-> a]

\* Clusterer.mergeClusters: b's members are appended to a's and the centroid is
\* recomputed over dim = len(chunks[0].Embedding) components; reading component d of
\* a shorter member embedding is an index-out-of-range panic
mergeClusters(a, b, chunks) ==
  LET members == a.members \o b.members
  IN  IF Len(chunks) > 0 /\ Len(chunks[1].Embedding) > 0
        THEN LET dim == Len(chunks[1].Embedding)
             IN  IF \E k \in 1..Len(members) : Len(chunks[members[k]].Embedding) < dim
                   THEN [panicked |-> TRUE, node |-> a]
                   ELSE [panicked |-> FALSE,
                         node |-> [a EXCEPT !.members = members,
                                   !.centroid = [sum |-> [d \in 1..dim |->
                                       SumSeq([k \in 1..Len(members) |->
                                                 chunks[members[k]].Embedding[d]])],
                                     n |-> Len(members)]]]
        ELSE [panicked |-> FALSE, node |-> [a EXCEPT !.members = members]]

\* a merging loop that never looks at MaxClusters
MergePassNoMaxClusters(nodes, activeCount, chunks, distMatrix, cfg) ==
  IF activeCount <= 1
    THEN [nodes |-> nodes, activeCount |-> activeCount, next |-> "build"]
  ELSE IF cfg.MinClusters > 0 /\ activeCount <= cfg.MinClusters
    THEN [nodes |-> nodes, activeCount |-> activeCount, next |-> "build"]
  ELSE LET c == FindClosest(nodes, distMatrix, cfg.Linkage)
       IN  IF FracLess(Whole(cfg.Threshold), c.minDist)
             THEN [nodes |-> nodes, activeCount |-> activeCount, next |-> "build"]
           ELSE IF c.minI = NoIndex
             THEN [nodes |-> nodes, activeCount |-> activeCount, next |-> "panic"]
           ELSE LET m == mergeClusters(nodes[c.minI], nodes[c.minJ], chunks)
                IN  IF m.panicked
                      THEN [nodes |-> nodes, activeCount |-> activeCount, next |-> "panic"]
                      ELSE [nodes |-> [nodes EXCEPT ![c.minI] = m.node,
                                                    ![c.minJ].active = FALSE],
                            activeCount |-> activeCount - 1,
                            next |-> "loop"]

\* a merging loop that never stops on the threshold
MergePassNoThresholdStop(nodes, activeCount, chunks, distMatrix, cfg) ==
  IF activeCount <= 1
    THEN [nodes |-> nodes, activeCount |-> activeCount, next |-> "build"]
  ELSE IF cfg.MinClusters > 0 /\ activeCount <= cfg.MinClusters
    THEN [nodes |-> nodes, activeCount |-> activeCount, next |-> "build"]
  ELSE LET c == FindClosest(nodes, distMatrix, cfg.Linkage)
       IN  IF c.minI = NoIndex
             THEN [nodes |-> nodes, activeCount |-> activeCount, next |-> "panic"]
           ELSE LET m == mergeClusters(nodes[c.minI], nodes[c.minJ], chunks)
                IN  IF m.panicked
                      THEN [nodes |-> nodes, activeCount |-> activeCount, next |-> "panic"]
                      ELSE [nodes |-> [nodes EXCEPT ![c.minI] = m.node,
                                                    ![c.minJ].active = FALSE],
                            activeCount |-> activeCount - 1,
                            next |-> IF cfg.MaxClusters > 0
                                        /\ activeCount - 1 <= cfg.MaxClusters
                                       THEN "build" ELSE "loop"]

\* a pass that leaves the loop when the minimum distance reaches the threshold
\* (">=" in place of ">")
MergePassStopsAtThreshold(nodes, activeCount, chunks, distMatrix, cfg) ==
  IF activeCount <= 1
    THEN [nodes |-> nodes, activeCount |-> activeCount, next |-> "build"]
  ELSE IF cfg.MinClusters > 0 /\ activeCount <= cfg.MinClusters
    THEN [nodes |-> nodes, activeCount |-> activeCount, next |-> "build"]
  ELSE LET c == FindClosest(nodes, distMatrix, cfg.Linkage)
       IN  IF ~FracLess(c.minDist, Whole(cfg.Threshold))
             THEN [nodes |-> nodes, activeCount |-> activeCount, next |-> "build"]
           ELSE IF c.minI = NoIndex
             THEN [nodes |-> nodes, activeCount |-> activeCount, next |-> "panic"]
           ELSE LET m == mergeClusters(nodes[c.minI], nodes[c.minJ], chunks)
                IN  IF m.panicked
                      THEN [nodes |-> nodes, activeCount |-> activeCount, next |-> "panic"]
                      ELSE [nodes |-> [nodes EXCEPT ![c.minI] = m.node,
                                                    ![c.minJ].active = FALSE],
                            activeCount |-> activeCount - 1,
                            next |-> IF cfg.MaxClusters > 0
                                        /\ activeCount - 1 <= cfg.MaxClusters
                                       THEN "build" ELSE "loop"]

\* one pass of the merging loop of Cluster, from the loop test to the end of the body;
\* next is "loop" (another pass), "build" (loop left) or "panic" (nodes[-1] indexed)
MergePass(nodes, activeCount, chunks, distMatrix, cfg) ==
  IF activeCount <= 1
    THEN [nodes |-> nodes, activeCount |-> activeCount, next |-> "build"]
  ELSE IF cfg.MinClusters > 0 /\ activeCount <= cfg.MinClusters
    THEN [nodes |-> nodes, activeCount |-> activeCount, next |-> "build"]
  ELSE LET c == FindClosest(nodes, distMatrix, cfg.Linkage)
       IN  IF FracLess(Whole(cfg.Threshold), c.minDist)
             THEN [nodes |-> nodes, activeCount |-> activeCount, next |-> "build"]
           ELSE IF c.minI = NoIndex
             THEN [nodes |-> nodes, activeCount |-> activeCount, next |-> "panic"]
           ELSE LET m == mergeClusters(nodes[c.minI], nodes[c.minJ], chunks)
                IN  IF m.panicked
                      THEN [nodes |-> nodes, activeCount |-> activeCount, next |-> "panic"]
                      ELSE [nodes |-> [nodes EXCEPT ![c.minI] = m.node,
                                                    ![c.minJ].active = FALSE],
                            activeCount |-> activeCount - 1,
                            next |-> IF cfg.MaxClusters > 0
                                        /\ activeCount - 1 <= cfg.MaxClusters
                                       THEN "build" ELSE "loop"]

RECURSIVE MergeLoop(_, _, _, _, _)
\* the merging loop of Cluster run to its end: the last pass's record
MergeLoop(nodes, activeCount, chunks, distMatrix, cfg) ==
  LET p == MergePass(nodes, activeCount, chunks, distMatrix, cfg)
  IN  IF p.next = "loop" THEN MergeLoop(p.nodes, p.activeCount, chunks, distMatrix, cfg)
      ELSE p

\* a result building that copies each member before its ClusterID is written
CopyMembersBeforeWrite(members, chunks, clusterID, m) ==
  [chunks |-> [i \in 1..Len(chunks) |->
                 IF \E k \in m..Len(members) : members[k] = i
                   THEN [chunks[i] EXCEPT !.ClusterID = clusterID] ELSE chunks[i]],
   copies |-> [k \in 1..(Len(members) - m + 1) |-> chunks[members[m + k - 1]]]]

RECURSIVE CopyMembers(_, _, _, _)
\* the inner loop of the result building: for members m.. of a node, write
\* chunks[idx].ClusterID = clusterID on the caller's slice, then copy chunks[idx]
CopyMembers(members, chunks, clusterID, m) ==
  IF m > Len(members) THEN [chunks |-> chunks, copies |-> <<>>]
  ELSE LET idx == members[m]
           written == [chunks EXCEPT ![idx].ClusterID = clusterID]
           rest == CopyMembers(members, written, clusterID, m + 1)
       IN  [chunks |-> rest.chunks, copies |-> <<written[idx]>> \o rest.copies]

RECURSIVE BuildFrom(_, _, _, _, _)
\* the outer loop of the result building over nodes k..n: inactive nodes are
\* skipped, active ones get the next clusterID
BuildFrom(nodes, chunks, k, clusterID, clusters) ==
  IF k > Len(nodes) THEN [chunks |-> chunks, clusters |-> clusters]
  ELSE IF ~nodes[k].active THEN BuildFrom(nodes, chunks, k + 1, clusterID, clusters)
  ELSE LET cm == CopyMembers(nodes[k].members, chunks, clusterID, 1)
       IN  BuildFrom(nodes, cm.chunks, k + 1, clusterID + 1,
                     Append(clusters, [ID |-> clusterID, Members |-> cm.copies,
                                       Centroid |-> nodes[k].centroid]))

\* a result building whose cluster ids start at 1
BuildResultIdsFromOne(nodes, chunks) ==
  LET b == BuildFrom(nodes, chunks, 1, 1, <<>>)
  IN  [chunks |-> b.chunks,
       result |-> [Clusters |-> b.clusters,
                   Representatives |-> <<>>,
                   InputCount |-> Len(chunks),
                   ClusterCount |-> Len(b.clusters)]]

\* Cluster, "Build result from active clusters"
BuildResult(nodes, chunks) ==
  LET b == BuildFrom(nodes, chunks, 1, 0, <<>>)
  IN  [chunks |-> b.chunks,
       result |-> [Clusters |-> b.clusters,
                   Representatives |-> <<>>,
                   InputCount |-> Len(chunks),
                   ClusterCount |-> Len(b.clusters)]]

HasEmbeddings(chunks) == \E i \in 1..Len(chunks) : Len(chunks[i].Embedding) > 0

\* the early returns of Cluster (n = 0, n = 1, no embeddings at all); early is FALSE
\* when the general path is to be taken
ClusterEntry(chunks) ==
  LET n == Len(chunks)
  IN  IF n = 0
        THEN [early |-> TRUE, chunks |-> chunks,
              result |-> [Clusters |-> <<>>, Representatives |-> <<>>,
                          InputCount |-> 0, ClusterCount |-> 0]]
      ELSE IF n = 1
        THEN LET c == [chunks[1] EXCEPT !.ClusterID = 0]
             IN  [early |-> TRUE, chunks |-> <<c>>,
                  result |-> [Clusters |-> <<[ID |-> 0, Members |-> <<c>>,
                                             Centroid |-> [sum |-> c.Embedding, n |-> 1]]>>,
                              Representatives |-> <<c>>,
                              InputCount |-> 1, ClusterCount |-> 1]]
      ELSE IF ~HasEmbeddings(chunks)
        THEN LET cs == [i \in 1..n |-> [chunks[i] EXCEPT !.ClusterID = i - 1]]
             IN  [early |-> TRUE, chunks |-> cs,
                  result |-> [Clusters |-> [i \in 1..n |->
                                [ID |-> i - 1, Members |-> <<cs[i]>>,
                                 Centroid |-> [sum |-> <<>>, n |-> 1]]],
                              Representatives |-> cs,
                              InputCount |-> n, ClusterCount |-> n]]
      ELSE [early |-> FALSE, chunks |-> chunks,
            result |-> [Clusters |-> <<>>, Representatives |-> <<>>,
                        InputCount |-> n, ClusterCount |-> 0]]

\* ------------------------------------------------------------------- selector
\* the strategies of the model's input domain ("hybrid" is not drawn)
Strategies == {"score", "centroid", "length"}

\* NewSelector: the empty strategy is "score"
NewSelector(cfg) == [Strategy |-> IF cfg.Strategy = "" THEN "score" ELSE cfg.Strategy]

RECURSIVE FirstBest(_, _, _, _)
\* the scan "best = first; for i = 1..: if better(member i, best) then best = i" that
\* the selectBy* functions share; better[i][best] is the strict comparison
FirstBest(n, better, i, best) ==
  IF i > n THEN best
  ELSE FirstBest(n, better, i + 1, IF better[i][best] THEN i ELSE best)

\* Selector.selectByScore: position (in Members) of the first member of maximum score
selectByScore(cluster) ==
  LET n == Len(cluster.Members)
  IN  FirstBest(n, [i \in 1..n |-> [best \in 1..n |->
                      cluster.Members[i].Score > cluster.Members[best].Score]], 2, 1)

\* cos(a, b) as the exact fraction sign(dot) * dot^2 / (|a|^2 |b|^2), which orders
\* pairs as CosineDistance does (larger = closer); the cases in which
\* CosineDistance returns 2.0 (empty or zero-magnitude input) are similarity -1
SignedSqSim(a, b) ==
  IF Len(a) = 0 \/ Len(b) = 0 THEN <<-1, 1>>
  ELSE LET n == Min2(Len(a), Len(b))
           dot == Dot(a, b, n)
           den == Dot(a, a, n) * Dot(b, b, n)
       IN  IF den = 0 THEN <<-1, 1>>
           ELSE <<(IF dot < 0 THEN -1 ELSE 1) * dot * dot, den>>

\* Selector.selectByCentroid: the first member closest to the centroid (the mean
\* sum/n has the direction of sum); an empty centroid falls back to the score
selectByCentroid(cluster) ==
  IF Len(cluster.Centroid.sum) = 0 THEN selectByScore(cluster)
  ELSE LET n == Len(cluster.Members)
           sim == [i \in 1..n |->
                     SignedSqSim(cluster.Members[i].Embedding, cluster.Centroid.sum)]
       IN  FirstBest(n, [i \in 1..n |-> [best \in 1..n |-> FracLess(sim[best], sim[i])]],
                     2, 1)

\* Selector.selectByLength: the first member of maximum text length
selectByLength(cluster) ==
  LET n == Len(cluster.Members)
  IN  FirstBest(n, [i \in 1..n |-> [best \in 1..n |->
                      cluster.Members[i].TextLen > cluster.Members[best].TextLen]], 2, 1)

\* Selector.SelectFromCluster: position of the representative in Members, NoIndex
\* for a cluster without members
SelectFromCluster(sel, cluster) ==
  IF Len(cluster.Members) = 0 THEN NoIndex
  ELSE IF Len(cluster.Members) = 1 THEN 1
  ELSE IF sel.Strategy = "centroid" THEN selectByCentroid(cluster)
  ELSE IF sel.Strategy = "length" THEN selectByLength(cluster)
  ELSE selectByScore(cluster)

RECURSIVE SelectReps(_, _, _)
\* the loop of Selector.Select over clusters i..: one representative per cluster
\* that has members, in cluster order
SelectReps(sel, clusters, i) ==
  IF i > Len(clusters) THEN <<>>
  ELSE LET rep == SelectFromCluster(sel, clusters[i])
       IN  (IF rep = NoIndex THEN <<>> ELSE <<clusters[i].Members[rep]>>)
             \o SelectReps(sel, clusters, i + 1)

\* Selector.Select: the representatives (also stored in the result)
Select(sel, result) == SelectReps(sel, result.Clusters, 1)

\* ------------------------------------------------------------------------ MMR
LambdaUnit == 10
DefaultTargetK == 8
DefaultOverFetchK == 50
DefaultLambda == 5

\* NewMMR: Lambda clamped to [0, 1] (tenths), TargetK <= 0 replaced by 8
NewMMR(cfg) ==
  [Lambda |-> IF cfg.Lambda < 0 THEN 0
              ELSE IF cfg.Lambda > LambdaUnit THEN LambdaUnit ELSE cfg.Lambda,
   TargetK |-> IF cfg.TargetK <= 0 THEN DefaultTargetK ELSE cfg.TargetK]

\* MMR.normalizeScores: min-max scaling; the normalized score of chunk i is
\* num[i] / den, and 1 for every chunk when all scores are equal
normalizeScores(chunks) ==
  LET scores == {chunks[i].Score : i \in 1..Len(chunks)}
      minScore == SetMin(scores)
      maxScore == SetMax(scores)
      scoreRange == maxScore - minScore
  IN  IF scoreRange = 0
        THEN [num |-> [i \in 1..Len(chunks) |-> 1], den |-> 1]
        ELSE [num |-> [i \in 1..Len(chunks) |-> chunks[i].Score - minScore],
              den |-> scoreRange]

\* MMR.computeSimilarityMatrix, in units of 1/DistUnit
computeSimilarityMatrix(chunks) ==
  [i \in 1..Len(chunks) |-> [j \in 1..Len(chunks) |->
     IF i = j THEN DistUnit
     ELSE IF Len(chunks[i].Embedding) = 0 \/ Len(chunks[j].Embedding) = 0 THEN 0
     ELSE DistUnit - CosineDistance(chunks[i].Embedding, chunks[j].Embedding)]]

RECURSIVE MaxSimFrom(_, _, _, _, _)
\* the loop of computeMMRScore: maxSim starts at 0 and is raised by "sim > maxSim"
MaxSimFrom(candidateIdx, selected, simMatrix, k, maxSim) ==
  IF k > Len(selected) THEN maxSim
  ELSE LET sim == simMatrix[candidateIdx][selected[k]]
       IN  MaxSimFrom(candidateIdx, selected, simMatrix, k + 1,
                      IF sim > maxSim THEN sim ELSE maxSim)

\* computeMMRScore with the two weights exchanged: (1 - lambda) on the relevance
\* and lambda on the similarity to the selected chunks
computeMMRScoreWeightsSwapped(mmr, candidateIdx, selected, scores, simMatrix) ==
  IF Len(selected) = 0
    THEN (LambdaUnit - mmr.Lambda) * scores.num[candidateIdx] * DistUnit
    ELSE (LambdaUnit - mmr.Lambda) * scores.num[candidateIdx] * DistUnit
           - mmr.Lambda * MaxSimFrom(candidateIdx, selected, simMatrix, 1, 0) * scores.den

\* MMR.computeMMRScore, as the integer  MMR * LambdaUnit * DistUnit * scores.den
\* (one positive factor for all candidates of a call)
computeMMRScore(mmr, candidateIdx, selected, scores, simMatrix) ==
  IF Len(selected) = 0
    THEN mmr.Lambda * scores.num[candidateIdx] * DistUnit
    ELSE mmr.Lambda * scores.num[candidateIdx] * DistUnit
           - (LambdaUnit - mmr.Lambda)
               * MaxSimFrom(candidateIdx, selected, simMatrix, 1, 0) * scores.den

\* the candidates one greedy step of Rerank can pick.  The step ranges over the Go
\* map "remaining", whose iteration order is unspecified, and keeps the first
\* candidate met whose value is strictly above the best so far (initially -2): any
\* candidate of maximum value is the pick for some iteration order, no other is.
GreedyPicks(mmr, selected, remaining, scores, simMatrix) ==
  LET V(c) == computeMMRScore(mmr, c, selected, scores, simMatrix)
      floor == (-2) * LambdaUnit * DistUnit * scores.den
  IN  {c \in remaining : V(c) > floor /\ \A d \in remaining : V(d) <= V(c)}

RECURSIVE GreedyRunsKeepsPicked(_, _, _, _, _)
\* a greedy loop that does not delete the pick from remaining
GreedyRunsKeepsPicked(mmr, selected, remaining, scores, simMatrix) ==
  IF ~(Len(selected) < mmr.TargetK /\ remaining # {}) THEN {selected}
  ELSE LET picks == GreedyPicks(mmr, selected, remaining, scores, simMatrix)
       IN  IF picks = {} THEN {selected}
           ELSE UNION {GreedyRunsKeepsPicked(mmr, Append(selected, c), remaining,
                                             scores, simMatrix) : c \in picks}

RECURSIVE GreedyRuns(_, _, _, _, _)
\* the greedy loop of Rerank: the set of index sequences it can end with
GreedyRuns(mmr, selected, remaining, scores, simMatrix) ==
  IF ~(Len(selected) < mmr.TargetK /\ remaining # {}) THEN {selected}
  ELSE LET picks == GreedyPicks(mmr, selected, remaining, scores, simMatrix)
       IN  IF picks = {} THEN {selected}
           ELSE UNION {GreedyRuns(mmr, Append(selected, c), remaining \ {c},
                                  scores, simMatrix) : c \in picks}

\* MMR.Rerank: the set of results the call can return
Rerank(mmr, chunks) ==
  IF Len(chunks) = 0 THEN {<<>>}
  ELSE IF Len(chunks) <= mmr.TargetK THEN {chunks}
  ELSE {[k \in 1..Len(sel) |-> chunks[sel[k]]] :
          sel \in GreedyRuns(mmr, <<>>, 1..Len(chunks), normalizeScores(chunks),
                             computeSimilarityMatrix(chunks))}

\* --------------------------------------------------------------------- broker
RECURSIVE ExchangeSort(_, _, _)
\* the sort of SelectTopK: for i, for j > i, swap when reps[j].Score > reps[i].Score
ExchangeSort(reps, i, j) ==
  IF i > Len(reps) - 1 THEN reps
  ELSE IF j > Len(reps) THEN ExchangeSort(reps, i + 1, i + 2)
  ELSE ExchangeSort(IF reps[j].Score > reps[i].Score
                      THEN [reps EXCEPT ![i] = reps[j], ![j] = reps[i]]
                      ELSE reps,
                    i, j + 1)

\* SelectTopK: re-selects the representatives with the given strategy and keeps the
\* k of highest score; reps[:k] with k < 0 is a slice-bounds panic
SelectTopK(result, k, strategy) ==
  LET reps == Select(NewSelector([Strategy |-> strategy]), result)
  IN  IF Len(reps) <= k THEN [panicked |-> FALSE, chunks |-> reps]
      ELSE IF k < 0 THEN [panicked |-> TRUE, chunks |-> <<>>]
      ELSE [panicked |-> FALSE, chunks |-> SubSeq(ExchangeSort(reps, 1, 2), 1, k)]

\* the sub-objects NewBroker and SetConfig build from a config; a nil *MMR is <<>>
ClustererOf(cfg) ==
  NewClusterer([Threshold |-> cfg.ClusterThreshold, Linkage |-> cfg.ClusterLinkage,
                MinClusters |-> 0, MaxClusters |-> 0])

SelectorOf(cfg) == NewSelector([Strategy |-> cfg.SelectionStrategy])

MMROf(cfg) ==
  IF cfg.EnableMMR THEN <<NewMMR([Lambda |-> cfg.MMRLambda, TargetK |-> cfg.TargetK])>>
  ELSE <<>>

\* NewBroker / NewBrokerWithEmbedder: defaults applied to the config, sub-objects built
NewBroker(embedder, cfg0) ==
  LET cfg == [cfg0 EXCEPT
                !.IncludeEmbeddings = TRUE,
                !.OverFetchK = IF cfg0.OverFetchK <= 0 THEN DefaultOverFetchK ELSE cfg0.OverFetchK,
                !.TargetK = IF cfg0.TargetK <= 0 THEN DefaultTargetK ELSE cfg0.TargetK,
                !.ClusterThreshold = IF cfg0.ClusterThreshold <= 0 THEN DefaultThreshold
                                     ELSE cfg0.ClusterThreshold,
                !.MMRLambda = IF cfg0.MMRLambda < 0 \/ cfg0.MMRLambda > LambdaUnit
                                THEN DefaultLambda ELSE cfg0.MMRLambda]
  IN  [cfg |-> cfg, embedder |-> embedder, clusterer |-> ClustererOf(cfg),
       selector |-> SelectorOf(cfg), mmr |-> MMROf(cfg)]

\* Broker.SetConfig, one write at a time (no lock is held):
\*   1: b.cfg = cfg   2: b.cfg.IncludeEmbeddings = true   3: b.clusterer = ...
\*   4: b.selector = ...   5: b.mmr = ... / nil
SetConfigWrite(b, cfg, step) ==
  IF step = 1 THEN [b EXCEPT !.cfg = cfg]
  ELSE IF step = 2 THEN [b EXCEPT !.cfg.IncludeEmbeddings = TRUE]
  ELSE IF step = 3 THEN [b EXCEPT !.clusterer = ClustererOf(cfg)]
  ELSE IF step = 4 THEN [b EXCEPT !.selector = SelectorOf(cfg)]
  ELSE [b EXCEPT !.mmr = MMROf(cfg)]

\* Broker.SetConfig run from its first to its last write
SetConfig(b, cfg) ==
  SetConfigWrite(SetConfigWrite(SetConfigWrite(SetConfigWrite(
    SetConfigWrite(b, cfg, 1), cfg, 2), cfg, 3), cfg, 4), cfg, 5)

\* step 5 of Retrieve / "Apply MMR if enabled" of ProcessChunks: the final chunks the
\* stage can produce from what it reads of the broker
FinalStage(cfg, mmr, representatives, clusterResult) ==
  IF cfg.EnableMMR /\ mmr # <<>> /\ Len(representatives) > cfg.TargetK
    THEN {[panicked |-> FALSE, chunks |-> r] : r \in Rerank(mmr[1], representatives)}
  ELSE IF Len(representatives) > cfg.TargetK
    THEN {SelectTopK(clusterResult, cfg.TargetK, cfg.SelectionStrategy)}
  ELSE {[panicked |-> FALSE, chunks |-> representatives]}

\* types.BrokerStats{}; of the latencies only "a clustering latency was recorded" is kept
NoStats == [Retrieved |-> 0, Clustered |-> 0, Returned |-> 0, ClusteringRecorded |-> FALSE]

\* ---------------------------------------------------------------- MemoryCache
\* DefaultConfig().MaxSize
DefaultMaxSize == 10000

\* NewMemoryCache: MaxSize 0 becomes the default; the cache starts empty.  The
\* list lru holds the entries front (most recently used) first; the map items is
\* its set of keys.  An entry keeps its size, whether it has an expiry time
\* (Expires) and whether that time has passed (Expired).
NewMemoryCache(cfg) ==
  [cfg |-> [cfg EXCEPT !.MaxSize = IF cfg.MaxSize = 0 THEN DefaultMaxSize ELSE cfg.MaxSize],
   lru |-> <<>>,
   stats |-> [Size |-> 0, SizeBytes |-> 0]]

\* the keys of the map items
ItemKeys(c) == {c.lru[i].Key : i \in 1..Len(c.lru)}

\* items[key]: the position of the key's element in the list
ElementOf(c, key) == CHOOSE i \in 1..Len(c.lru) : c.lru[i].Key = key

\* the list without its element at position i
ListRemove(l, i) == SubSeq(l, 1, i - 1) \o SubSeq(l, i + 1, Len(l))

\* MemoryCache.removeElement: the element leaves the map and the list, the
\* counters are decreased
removeElement(c, i) ==
  [c EXCEPT !.lru = ListRemove(c.lru, i),
            !.stats.Size = c.stats.Size - 1,
            !.stats.SizeBytes = c.stats.SizeBytes - c.lru[i].Size]

\* MemoryCache.needsEviction
needsEviction(c, additionalSize) ==
  \/ c.cfg.MaxSize > 0 /\ c.stats.Size >= c.cfg.MaxSize
  \/ c.cfg.MaxSizeBytes > 0 /\ c.stats.SizeBytes + additionalSize > c.cfg.MaxSizeBytes

\* MemoryCache.evictOldest: the back of the list is removed (nothing when empty)
evictOldest(c) == IF Len(c.lru) = 0 THEN c ELSE removeElement(c, Len(c.lru))

RECURSIVE EvictLoop(_, _, _)
\* "for c.needsEviction(size) { c.evictOldest() }": the cache and the keys evicted
\* when the loop ends (it ends at the latest when the list is empty, for the sizes
\* Set lets through)
EvictLoop(c, size, evicted) ==
  IF needsEviction(c, size) /\ Len(c.lru) > 0
    THEN EvictLoop(evictOldest(c), size, Append(evicted, c.lru[Len(c.lru)].Key))
    ELSE [cache |-> c, evicted |-> evicted]

\* the Entry Set builds: size len(key) + len(value), an expiry time when ttl > 0
\* or DefaultTTL > 0
NewEntry(c, key, size, ttl) ==
  [Key |-> key, Size |-> size, Expires |-> (ttl > 0 \/ c.cfg.DefaultTTL > 0),
   Expired |-> FALSE]

\* MemoryCache.Set: too large a value is refused; an existing entry is replaced
\* and moved to the front (no eviction); otherwise entries are evicted from the
\* back while needsEviction and the new entry is pushed to the front
Set(c, key, size, ttl) ==
  IF c.cfg.MaxSizeBytes > 0 /\ size > c.cfg.MaxSizeBytes
    THEN [cache |-> c, res |-> "too-large", evicted |-> <<>>]
  ELSE IF key \in ItemKeys(c)
    THEN [cache |-> [c EXCEPT
                       !.lru = <<NewEntry(c, key, size, ttl)>> \o ListRemove(c.lru, ElementOf(c, key)),
                       !.stats.SizeBytes = c.stats.SizeBytes - c.lru[ElementOf(c, key)].Size + size],
          res |-> "ok", evicted |-> <<>>]
  ELSE LET e == EvictLoop(c, size, <<>>)
       IN  [cache |-> [e.cache EXCEPT
                         !.lru = <<NewEntry(c, key, size, ttl)>> \o e.cache.lru,
                         !.stats.Size = e.cache.stats.Size + 1,
                         !.stats.SizeBytes = e.cache.stats.SizeBytes + size],
            res |-> "ok", evicted |-> e.evicted]

\* MemoryCache.Get that leaves the list order alone on a hit
GetNoMoveToFront(c, key) ==
  IF key \notin ItemKeys(c) THEN [cache |-> c, res |-> "not-found"]
  ELSE IF c.lru[ElementOf(c, key)].Expired
    THEN [cache |-> removeElement(c, ElementOf(c, key)), res |-> "not-found"]
  ELSE [cache |-> c, res |-> "ok"]

\* MemoryCache.Get: a miss for an absent key; an expired entry is removed and
\* missed; a hit moves the element to the front
Get(c, key) ==
  IF key \notin ItemKeys(c) THEN [cache |-> c, res |-> "not-found"]
  ELSE IF c.lru[ElementOf(c, key)].Expired
    THEN [cache |-> removeElement(c, ElementOf(c, key)), res |-> "not-found"]
  ELSE [cache |-> [c EXCEPT !.lru = <<c.lru[ElementOf(c, key)]>>
                                      \o ListRemove(c.lru, ElementOf(c, key))],
        res |-> "ok"]

\* MemoryCache.Delete
Delete(c, key) ==
  IF key \notin ItemKeys(c) THEN [cache |-> c, res |-> "not-found"]
  ELSE [cache |-> removeElement(c, ElementOf(c, key)), res |-> "ok"]

\* MemoryCache.Clear
Clear(c) == [c EXCEPT !.lru = <<>>, !.stats.Size = 0, !.stats.SizeBytes = 0]

RECURSIVE RemoveExpired(_, _)
\* the second loop of cleanup: removeElement for each expired element, from the
\* back of the list (position i) to the front
RemoveExpired(c, i) ==
  IF i = 0 THEN c
  ELSE RemoveExpired(IF c.lru[i].Expired THEN removeElement(c, i) ELSE c, i - 1)

\* MemoryCache.cleanup
cleanup(c) == RemoveExpired(c, Len(c.lru))

\* ============================================================ state
VARIABLES
  \* --- one call of Clusterer.Cluster
  chunks,        \* the slice handed to Cluster (the caller's backing array)
  orig,          \* that slice as it was when the call was made
  ccfg,          \* the Clusterer's cfg
  nodes,         \* local nodes
  distMatrix,    \* local distMatrix
  activeCount,   \* local activeCount
  cpc,           \* where Cluster is: idle / loop / build / done / panic
  cresult,       \* the ClusterResult returned
  \* --- the broker
  broker,        \* the Broker struct: cfg, embedder (wired or not), clusterer, selector, mmr
  setpc,         \* SetConfig in progress: its next write 1..5, 0 when none is running
  setcfg,        \* the argument of the SetConfig in progress
  gotcfg,        \* what the last GetConfig returned
  \* --- one call of Retrieve / RetrieveWithFilter / ProcessChunks
  kind,          \* "none" / "retrieve" / "process" / "getconfig"
  stage,         \* idle / embedding / prepare / querying / cluster / clustering / final / done
  req,           \* the caller's RetrievalRequest object
  req0,          \* the request as the caller filled it in
  cancelled,     \* the call's context has been cancelled
  cancelledAtReturn, \* the context was cancelled when a collaborator call returned
  queried,       \* the retrieval collaborator has been called by this call
  representatives, \* local representatives
  stats,         \* local stats
  outcome,       \* what the call returned
  b0,            \* the broker as it was when the call started
  cleanStart,    \* no SetConfig was running when the call started
  obs,           \* what the call has read of the broker so far
  first,         \* what the caller's first call returned
  runs,          \* calls the caller has completed (counted to 2)
  \* --- one call of MMRRerank
  mmrpc,         \* "idle" before the call, "done" when it has returned
  mmrIn,         \* the chunks handed to MMRRerank
  mmrCfg,        \* the MMR built by NewMMR from lambda and targetK
  mmrOut,        \* the slice MMRRerank returned
  \* --- the HTTP server: requests to /v1/retrieve handled one after the other
  srvpc,         \* "idle" / "handled" (the last request reached Retrieve) / "rejected"
  srvStartCfg,   \* the broker's configuration when the server started
  srvReq,        \* the last RetrieveRequest decoded
  srvUsed,       \* the broker as Retrieve found it for the last request
  \* --- one MemoryCache and its callers
  cache,         \* the MemoryCache: cfg, lru (front first), stats.Size and stats.SizeBytes
  touch,         \* the keys in the order of their last successful Get or Set, latest first
  cop,           \* the last call: op, key, res, the keys it evicted, and whether it was
                 \* a Set of an absent key on a cache holding MaxSize entries
  \* --- one call of Pipeline.IngestReader
  ipc,           \* "idle" / "running" (waiting on the wait groups) / "returned"
  icfg,          \* the pipeline's Config: BatchSize, Workers, ChannelBuffer
  lines,         \* the lines the scanner has still to deliver: "vec" or "bad"
  ctxDone,       \* the call's context is cancelled
  vectorCh,      \* [n: vectors queued, closed]
  batchCh,       \* [q: the queued batches (their lengths), closed]
  errCh,         \* the error queued on errCh, "none" when it is empty
  reader,        \* the reader goroutine: pc, err (what readVectors returned)
  batcher,       \* the batcher goroutine: pc, batch (the length of its batch)
  workers,       \* per upload worker: pc, held (the length of the batch it holds)
  istats,        \* p.stats: TotalVectors, UploadedVectors, FailedVectors, BatchesProcessed
  ireturn        \* the error IngestReader returned

cvars == <<chunks, orig, ccfg, nodes, distMatrix, activeCount, cpc, cresult>>

svars == <<setpc, setcfg, gotcfg>>

rvars == <<kind, stage, req, req0, cancelled, cancelledAtReturn, queried,
           representatives, stats, outcome, b0, cleanStart, obs, first, runs>>

mvars == <<mmrpc, mmrIn, mmrCfg, mmrOut>>

hvars == <<srvpc, srvStartCfg, srvReq, srvUsed>>

kvars == <<cache, touch, cop>>

ivars == <<ipc, icfg, lines, ctxDone, vectorCh, batchCh, errCh, reader, batcher,
           workers, istats, ireturn>>

xvars == <<hvars, kvars, ivars>>

vars == <<cvars, broker, svars, rvars, mvars, xvars>>

\* ------------------------------------------------------------ input domains
Embeddings == {EmptyEmb, ZeroEmb, E1, E2, NegE1, V43, V34}

\* the chunk lists handed to Cluster: ids are the input positions
ChunkList(embs) == [i \in 1..Len(embs) |-> NewChunk(i, 1, embs[i], 1)]

ClusterInputs == {ChunkList(e) : e \in SeqsUpTo(Embeddings, MaxChunks)}

ClusterCfgs ==
  [Threshold : {0, 15, 25, 100, 200}, Linkage : Linkages \cup {""},
   MinClusters : {0, 2}, MaxClusters : {0, 2}]

\* DefaultBrokerConfig()
DefaultBrokerConfig ==
  [OverFetchK |-> DefaultOverFetchK, TargetK |-> DefaultTargetK,
   ClusterThreshold |-> DefaultThreshold, ClusterLinkage |-> "average",
   SelectionStrategy |-> "score", EnableMMR |-> TRUE, MMRLambda |-> DefaultLambda,
   IncludeEmbeddings |-> TRUE, IncludeMetadata |-> TRUE]

\* the configurations handed to NewBroker and SetConfig by the single caller
PipeCfgs ==
  [OverFetchK : {0}, TargetK : {0, 1, 2}, ClusterThreshold : {15, 25, 200},
   ClusterLinkage : {""}, SelectionStrategy : {"score", "centroid"},
   EnableMMR : BOOLEAN, MMRLambda : {5},
   IncludeEmbeddings : {FALSE}, IncludeMetadata : {TRUE}]

\* the candidate lists handed to ProcessChunks: ids are the input positions
Candidates(kinds) ==
  [i \in 1..Len(kinds) |-> NewChunk(i, 1, kinds[i][1], kinds[i][2])]

PipeInputs ==
  {Candidates(k) : k \in SeqsUpTo({E1, V43, NegE1} \X {1, 2}, MaxCandidates)}

\* the two configurations of the concurrent scenario (NewBroker gets CfgA)
CfgA ==
  [OverFetchK |-> 3, TargetK |-> 2, ClusterThreshold |-> 15, ClusterLinkage |-> "average",
   SelectionStrategy |-> "score", EnableMMR |-> TRUE, MMRLambda |-> 5,
   IncludeEmbeddings |-> FALSE, IncludeMetadata |-> TRUE]

CfgB ==
  [OverFetchK |-> 2, TargetK |-> 1, ClusterThreshold |-> 200, ClusterLinkage |-> "complete",
   SelectionStrategy |-> "length", EnableMMR |-> FALSE, MMRLambda |-> 10,
   IncludeEmbeddings |-> FALSE, IncludeMetadata |-> FALSE]

RaceCfgs == {CfgA, CfgB}

\* what the retrieval collaborator holds, best match first
Catalog == <<NewChunk(1, 1, E1, 3), NewChunk(2, 2, V43, 2), NewChunk(3, 1, NegE1, 1)>>

\* types.RetrievalRequest values a caller fills in
Requests ==
  [Query : {"", "q"}, QueryEmbedding : {<<>>, E1}, TopK : {7}, Namespace : {"ns"},
   Filter : {"none"}, IncludeEmbeddings : {FALSE}, IncludeMetadata : {FALSE}]

EmptyResult == [Clusters |-> <<>>, Representatives |-> <<>>, InputCount |-> 0, ClusterCount |-> 0]

NoOutcome == [status |-> "none", Chunks |-> <<>>, Stats |-> NoStats]

\* the part of a broker a call reads: OverFetchK and IncludeMetadata before the
\* retrieval, the clusterer, the selector, and cfg with mmr in the last step
ObsOf(b) ==
  [OverFetchK |-> b.cfg.OverFetchK, IncludeMetadata |-> b.cfg.IncludeMetadata,
   clusterer |-> b.clusterer, selector |-> b.selector, cfg |-> b.cfg, mmr |-> b.mmr,
   final |-> FALSE]

InitCluster ==
  /\ chunks = <<>>
  /\ orig = <<>>
  /\ ccfg = NewClusterer([Threshold |-> 0, Linkage |-> "", MinClusters |-> 0, MaxClusters |-> 0])
  /\ nodes = <<>>
  /\ distMatrix = <<>>
  /\ activeCount = 0
  /\ cpc = "idle"
  /\ cresult = EmptyResult

InitCall ==
  /\ setpc = 0
  /\ setcfg = DefaultBrokerConfig
  /\ gotcfg = DefaultBrokerConfig
  /\ kind = "none"
  /\ stage = "idle"
  /\ req = [Query |-> "", QueryEmbedding |-> <<>>, TopK |-> 0, Namespace |-> "",
            Filter |-> "none", IncludeEmbeddings |-> FALSE, IncludeMetadata |-> FALSE]
  /\ req0 = req
  /\ cancelled = FALSE
  /\ cancelledAtReturn = FALSE
  /\ queried = FALSE
  /\ representatives = <<>>
  /\ stats = NoStats
  /\ outcome = NoOutcome
  /\ b0 = NewBroker(FALSE, DefaultBrokerConfig)
  /\ cleanStart = TRUE
  /\ obs = ObsOf(NewBroker(FALSE, DefaultBrokerConfig))
  /\ first = NoOutcome
  /\ runs = 0

\* no MMRRerank call has been made; DefaultMMRConfig is lambda 0.5, TargetK 8
InitMMR ==
  /\ mmrpc = "idle"
  /\ mmrIn = <<>>
  /\ mmrCfg = NewMMR([Lambda |-> DefaultLambda, TargetK |-> DefaultTargetK])
  /\ mmrOut = <<>>

\* the JSON body {}: no query, no override
NoRetrieveRequest ==
  [Query |-> "", QueryEmbedding |-> <<>>, OverFetchK |-> 0, TargetK |-> 0,
   Threshold |-> 0, Lambda |-> 0]

\* no server is running
InitNoServer ==
  /\ srvpc = "idle"
  /\ srvStartCfg = DefaultBrokerConfig
  /\ srvReq = NoRetrieveRequest
  /\ srvUsed = NewBroker(FALSE, DefaultBrokerConfig)

\* no call has been made on the cache
NoCacheCall == [op |-> "none", key |-> "", res |-> "", evicted |-> <<>>, full |-> FALSE]

\* a MemoryCache nobody uses
InitNoCache ==
  /\ cache = NewMemoryCache([MaxSize |-> 0, MaxSizeBytes |-> 0, DefaultTTL |-> 0])
  /\ touch = <<>>
  /\ cop = NoCacheCall

\* &Stats{}
NoIngestStats ==
  [TotalVectors |-> 0, UploadedVectors |-> 0, FailedVectors |-> 0, BatchesProcessed |-> 0]

\* NewPipeline(client, cfg) has been called and IngestReader has not: no channel,
\* no goroutine
PipelineIdle(cfg) ==
  /\ ipc = "idle"
  /\ icfg = cfg
  /\ lines = <<>>
  /\ ctxDone = FALSE
  /\ vectorCh = [n |-> 0, closed |-> FALSE]
  /\ batchCh = [q |-> <<>>, closed |-> FALSE]
  /\ errCh = "none"
  /\ reader = [pc |-> "none", err |-> "none"]
  /\ batcher = [pc |-> "none", batch |-> 0]
  /\ workers = [w \in 1..cfg.Workers |-> [pc |-> "none", held |-> 0]]
  /\ istats = NoIngestStats
  /\ ireturn = "none"

\* a pipeline nobody uses
InitNoIngest == PipelineIdle([BatchSize |-> 1, Workers |-> 1, ChannelBuffer |-> 1])

\* the parts of the program a scenario does not use
InitOther ==
  /\ InitNoServer
  /\ InitNoCache
  /\ InitNoIngest

\* a program that only uses the clusterer
Init ==
  /\ InitCluster
  /\ broker = NewBroker(FALSE, DefaultBrokerConfig)
  /\ InitCall
  /\ InitMMR
  /\ InitOther

\* NewBroker(ret, cfg) has been called
InitPipe ==
  /\ InitCluster
  /\ broker \in {NewBroker(FALSE, cfg) : cfg \in PipeCfgs}
  /\ InitCall
  /\ InitMMR
  /\ InitOther

\* NewBroker(ret, CfgA) or NewBrokerWithEmbedder(ret, emb, CfgA) has been called
InitBroker ==
  /\ InitCluster
  /\ broker \in {NewBroker(e, CfgA) : e \in BOOLEAN}
  /\ InitCall
  /\ InitMMR
  /\ InitOther

\* ------------------------------------------------------------ Clusterer.Cluster
\* the entry of Cluster on the slice cs with clusterer cfg: the early returns, or
\* the set-up of the general path (nodes, distance matrix, activeCount)
EnterCluster(cs, cfg) ==
  /\ ccfg' = cfg
  /\ chunks' = ClusterEntry(cs).chunks
  /\ cresult' = ClusterEntry(cs).result
  /\ IF ClusterEntry(cs).early
       THEN /\ cpc' = "done"
            /\ UNCHANGED <<nodes, distMatrix, activeCount>>
       ELSE /\ cpc' = "loop"
            /\ nodes' = InitNodes(cs)
            /\ distMatrix' = computeDistanceMatrix(cs)
            /\ activeCount' = Len(cs)

\* NewClusterer(cfg).Cluster(input) is called
ClusterCall ==
  /\ cpc = "idle"
  /\ \E input \in ClusterInputs, cfg \in ClusterCfgs :
       /\ orig' = input
       /\ EnterCluster(input, NewClusterer(cfg))
  /\ UNCHANGED <<broker, svars, rvars>>
  /\ UNCHANGED <<mvars, xvars>>

\* one pass of the merging loop
MergeIteration ==
  /\ cpc = "loop"
  /\ LET p == MergePass(nodes, activeCount, chunks, distMatrix, ccfg)
     IN  /\ nodes' = p.nodes
         /\ activeCount' = p.activeCount
         /\ cpc' = p.next
  /\ UNCHANGED <<chunks, orig, ccfg, distMatrix, cresult>>
  /\ UNCHANGED <<broker, svars, rvars>>
  /\ UNCHANGED <<mvars, xvars>>

\* the result is built and returned
ClusterReturn ==
  /\ cpc = "build"
  /\ LET b == BuildResult(nodes, chunks)
     IN  /\ chunks' = b.chunks
         /\ cresult' = b.result
  /\ cpc' = "done"
  /\ UNCHANGED <<orig, ccfg, nodes, distMatrix, activeCount>>
  /\ UNCHANGED <<broker, svars, rvars>>
  /\ UNCHANGED <<mvars, xvars>>

NextCluster == ClusterCall \/ MergeIteration \/ ClusterReturn

SpecCluster == Init /\ [][NextCluster]_vars

\* ------------------------------------------------------------ broker calls
\* a call starts: what is remembered about it
StartCall(k) ==
  /\ kind' = k
  /\ cancelled' = FALSE
  /\ cancelledAtReturn' = FALSE
  /\ queried' = FALSE
  /\ representatives' = <<>>
  /\ b0' = broker
  /\ cleanStart' = (setpc = 0)
  /\ obs' = ObsOf(broker)

\* the call returns result / error
Finish(status, cs, st) ==
  /\ outcome' = [status |-> status, Chunks |-> cs, Stats |-> st]
  /\ stage' = "done"

\* ProcessChunks(input) up to the call of Cluster: the empty list returns at once
EnterProcessChunks(input) ==
  /\ StartCall("process")
  /\ orig' = input
  /\ chunks' = input
  /\ stats' = [NoStats EXCEPT !.Retrieved = Len(input)]
  /\ IF Len(input) = 0
       THEN Finish("ok", <<>>, [NoStats EXCEPT !.Retrieved = 0])
       ELSE /\ stage' = "cluster"
            /\ UNCHANGED outcome
  /\ UNCHANGED <<ccfg, nodes, distMatrix, activeCount, cpc, cresult>>
  /\ UNCHANGED <<broker, svars, req, req0, first, runs>>

\* b.ProcessChunks(input), the caller's first call
ProcessChunksFirst ==
  /\ stage = "idle"
  /\ runs = 0
  /\ \E input \in PipeInputs : EnterProcessChunks(input)
  /\ UNCHANGED <<mvars, xvars>>

\* b.ProcessChunks on the same chunk list, the caller's second call
ProcessChunksAgain ==
  /\ stage = "idle"
  /\ runs = 1
  /\ kind = "process"
  /\ EnterProcessChunks(orig)
  /\ UNCHANGED <<mvars, xvars>>

\* b.clusterer.Cluster(chunks): b.clusterer is read and Cluster entered
ClusterBegin ==
  /\ stage = "cluster"
  /\ EnterCluster(chunks, broker.clusterer)
  /\ obs' = [obs EXCEPT !.clusterer = broker.clusterer]
  /\ stage' = "clustering"
  /\ UNCHANGED <<orig, broker, svars>>
  /\ UNCHANGED <<kind, req, req0, cancelled, cancelledAtReturn, queried,
                 representatives, stats, outcome, b0, cleanStart, first, runs>>
  /\ UNCHANGED <<mvars, xvars>>

\* Cluster panicked: the call ends with the panic
ClusterPanic ==
  /\ stage = "clustering"
  /\ cpc = "panic"
  /\ Finish("panic", <<>>, stats)
  /\ UNCHANGED <<cvars, broker, svars>>
  /\ UNCHANGED <<kind, req, req0, cancelled, cancelledAtReturn, queried,
                 representatives, stats, b0, cleanStart, obs, first, runs>>
  /\ UNCHANGED <<mvars, xvars>>

\* Cluster returned: latency and cluster count are recorded, b.selector is read
\* and the representatives are selected (Select stores them in the result too)
SelectStep ==
  /\ stage = "clustering"
  /\ cpc = "done"
  /\ stats' = [stats EXCEPT !.ClusteringRecorded = TRUE, !.Clustered = cresult.ClusterCount]
  /\ representatives' = Select(broker.selector, cresult)
  /\ cresult' = [cresult EXCEPT !.Representatives = Select(broker.selector, cresult)]
  /\ obs' = [obs EXCEPT !.selector = broker.selector]
  /\ stage' = "final"
  /\ UNCHANGED <<chunks, orig, ccfg, nodes, distMatrix, activeCount, cpc>>
  /\ UNCHANGED <<broker, svars>>
  /\ UNCHANGED <<kind, req, req0, cancelled, cancelledAtReturn, queried,
                 outcome, b0, cleanStart, first, runs>>
  /\ UNCHANGED <<mvars, xvars>>

\* the last step: b.cfg and b.mmr are read, MMR or top-K trimming is applied and
\* the result returned
FinalStep ==
  /\ stage = "final"
  /\ \E f \in FinalStage(broker.cfg, broker.mmr, representatives, cresult) :
       IF f.panicked
         THEN Finish("panic", <<>>, stats)
         ELSE Finish("ok", f.chunks, [stats EXCEPT !.Returned = Len(f.chunks)])
  /\ obs' = [obs EXCEPT !.cfg = broker.cfg, !.mmr = broker.mmr, !.final = TRUE]
  /\ UNCHANGED <<cvars, broker, svars>>
  /\ UNCHANGED <<kind, req, req0, cancelled, cancelledAtReturn, queried,
                 representatives, stats, b0, cleanStart, first, runs>>
  /\ UNCHANGED <<mvars, xvars>>

\* the caller has its result and may call again
CallReturn ==
  /\ stage = "done"
  /\ stage' = "idle"
  /\ first' = IF runs = 0 THEN outcome ELSE first
  /\ runs' = IF runs < 2 THEN runs + 1 ELSE runs
  /\ UNCHANGED <<cvars, broker, svars>>
  /\ UNCHANGED <<kind, req, req0, cancelled, cancelledAtReturn, queried,
                 representatives, stats, outcome, b0, cleanStart, obs>>
  /\ UNCHANGED <<mvars, xvars>>

\* b.SetConfig(cfg) by the single caller, before its first ProcessChunks
SetConfigCall ==
  /\ stage = "idle"
  /\ runs = 0
  /\ \E cfg \in PipeCfgs : broker' = SetConfig(broker, cfg)
  /\ UNCHANGED <<cvars, svars, rvars>>
  /\ UNCHANGED <<mvars, xvars>>

NextPipe ==
  \/ SetConfigCall
  \/ ProcessChunksFirst
  \/ ProcessChunksAgain
  \/ ClusterBegin
  \/ MergeIteration
  \/ ClusterReturn
  \/ ClusterPanic
  \/ SelectStep
  \/ FinalStep
  \/ CallReturn

SpecPipe == InitPipe /\ [][NextPipe]_vars

\* ------------------------------------------------------------ Retrieve, concurrently
\* with SetConfig and GetConfig (the Broker holds no lock)

\* b.Retrieve(ctx, req) or b.RetrieveWithFilter(ctx, req, filter) is called: the
\* filter is stored in the request, then step 1 decides whether the query is embedded
RetrieveCall ==
  /\ stage = "idle"
  /\ runs = 0
  /\ \E r \in Requests, withFilter \in BOOLEAN :
       /\ req0' = r
       /\ req' = IF withFilter THEN [r EXCEPT !.Filter = "filter"] ELSE r
       /\ IF r.Query # "" /\ Len(r.QueryEmbedding) = 0
            THEN IF ~broker.embedder
                   THEN Finish("no-embedder", <<>>, NoStats)
                   ELSE /\ stage' = "embedding"
                        /\ UNCHANGED outcome
            ELSE /\ stage' = "prepare"
                 /\ UNCHANGED outcome
  /\ StartCall("retrieve")
  /\ stats' = NoStats
  /\ UNCHANGED <<cvars, broker, svars, first, runs>>
  /\ UNCHANGED <<mvars, xvars>>

\* b.embedder.Embed returns: an error, or a vector (possibly empty) stored in the request
EmbedReturn ==
  /\ stage = "embedding"
  /\ \E res \in {"vector", "empty", "error"} \cup (IF cancelled THEN {"cancelled"} ELSE {}) :
       /\ cancelledAtReturn' = (cancelledAtReturn \/ (cancelled /\ res \in {"vector", "empty"}))
       /\ IF res \in {"error", "cancelled"}
            THEN /\ Finish(res, <<>>, NoStats)
                 /\ UNCHANGED req
            ELSE /\ req' = [req EXCEPT !.QueryEmbedding = IF res = "vector" THEN E1 ELSE <<>>]
                 /\ stage' = "prepare"
                 /\ UNCHANGED outcome
  /\ UNCHANGED <<cvars, broker, svars>>
  /\ UNCHANGED <<kind, req0, cancelled, queried, representatives, stats,
                 b0, cleanStart, obs, first, runs>>
  /\ UNCHANGED <<mvars, xvars>>

\* step 2 without the check of the query vector before it
PrepareQueryUnchecked ==
  /\ stage = "prepare"
  /\ req' = [req EXCEPT !.TopK = broker.cfg.OverFetchK,
                        !.IncludeEmbeddings = TRUE,
                        !.IncludeMetadata = broker.cfg.IncludeMetadata]
  /\ obs' = [obs EXCEPT !.OverFetchK = broker.cfg.OverFetchK,
                        !.IncludeMetadata = broker.cfg.IncludeMetadata]
  /\ queried' = TRUE
  /\ stage' = "querying"
  /\ UNCHANGED outcome
  /\ UNCHANGED <<cvars, broker, svars>>
  /\ UNCHANGED <<kind, req0, cancelled, cancelledAtReturn, representatives, stats,
                 b0, cleanStart, first, runs>>
  /\ UNCHANGED <<mvars, xvars>>

\* the query vector is checked, then step 2 writes the request and calls Query
PrepareQuery ==
  /\ stage = "prepare"
  /\ IF Len(req.QueryEmbedding) = 0
       THEN /\ Finish("invalid-query", <<>>, NoStats)
            /\ UNCHANGED <<req, queried, obs>>
       ELSE /\ req' = [req EXCEPT !.TopK = broker.cfg.OverFetchK,
                                  !.IncludeEmbeddings = TRUE,
                                  !.IncludeMetadata = broker.cfg.IncludeMetadata]
            /\ obs' = [obs EXCEPT !.OverFetchK = broker.cfg.OverFetchK,
                                  !.IncludeMetadata = broker.cfg.IncludeMetadata]
            /\ queried' = TRUE
            /\ stage' = "querying"
            /\ UNCHANGED outcome
  /\ UNCHANGED <<cvars, broker, svars>>
  /\ UNCHANGED <<kind, req0, cancelled, cancelledAtReturn, representatives, stats,
                 b0, cleanStart, first, runs>>
  /\ UNCHANGED <<mvars, xvars>>

\* b.retriever.Query returns: an error, or the best req.TopK chunks of the catalog,
\* or nothing
QueryReturn ==
  /\ stage = "querying"
  /\ \E res \in {"hits", "none", "error"} \cup (IF cancelled THEN {"cancelled"} ELSE {}) :
       /\ cancelledAtReturn' = (cancelledAtReturn \/ (cancelled /\ res \in {"hits", "none"}))
       /\ IF res \in {"error", "cancelled"}
            THEN /\ Finish(res, <<>>, NoStats)
                 /\ UNCHANGED <<chunks, orig, stats>>
          ELSE IF res = "none" \/ req.TopK <= 0
            THEN /\ Finish("ok", <<>>, [NoStats EXCEPT !.Retrieved = 0])
                 /\ UNCHANGED <<chunks, orig, stats>>
          ELSE /\ chunks' = SubSeq(Catalog, 1, Min2(req.TopK, Len(Catalog)))
               /\ orig' = chunks'
               /\ stats' = [NoStats EXCEPT !.Retrieved = Len(chunks')]
               /\ stage' = "cluster"
               /\ UNCHANGED outcome
  /\ UNCHANGED <<ccfg, nodes, distMatrix, activeCount, cpc, cresult>>
  /\ UNCHANGED <<broker, svars>>
  /\ UNCHANGED <<kind, req, req0, cancelled, queried, representatives,
                 b0, cleanStart, obs, first, runs>>
  /\ UNCHANGED <<mvars, xvars>>

\* the caller's context is cancelled while Retrieve is running
Cancel ==
  /\ kind = "retrieve"
  /\ stage \in {"embedding", "prepare", "querying"}
  /\ ~cancelled
  /\ cancelled' = TRUE
  /\ UNCHANGED <<cvars, broker, svars>>
  /\ UNCHANGED <<kind, stage, req, req0, cancelledAtReturn, queried, representatives,
                 stats, outcome, b0, cleanStart, obs, first, runs>>
  /\ UNCHANGED <<mvars, xvars>>

\* b.ProcessChunks(catalog) is called by the same caller instead of Retrieve
ProcessChunksCall ==
  /\ stage = "idle"
  /\ runs = 0
  /\ EnterProcessChunks(Catalog)
  /\ UNCHANGED <<mvars, xvars>>

\* another goroutine calls b.SetConfig(cfg), until the caller has its result
SetConfigBegin ==
  /\ setpc = 0
  /\ runs = 0
  /\ \E cfg \in RaceCfgs : setcfg' = cfg
  /\ setpc' = 1
  /\ UNCHANGED <<cvars, broker, gotcfg, rvars>>
  /\ UNCHANGED <<mvars, xvars>>

\* the next write of the SetConfig in progress
SetConfigStep ==
  /\ setpc > 0
  /\ broker' = SetConfigWrite(broker, setcfg, setpc)
  /\ setpc' = IF setpc = 5 THEN 0 ELSE setpc + 1
  /\ UNCHANGED <<cvars, setcfg, gotcfg, rvars>>
  /\ UNCHANGED <<mvars, xvars>>

\* b.GetConfig() is called by the same caller instead of Retrieve
GetConfigCall ==
  /\ stage = "idle"
  /\ runs = 0
  /\ gotcfg' = broker.cfg
  /\ kind' = "getconfig"
  /\ stage' = "done"
  /\ UNCHANGED <<cvars, broker, setpc, setcfg>>
  /\ UNCHANGED <<req, req0, cancelled, cancelledAtReturn, queried, representatives,
                 stats, outcome, b0, cleanStart, obs, first, runs>>
  /\ UNCHANGED <<mvars, xvars>>

NextBroker ==
  \/ RetrieveCall
  \/ EmbedReturn
  \/ PrepareQuery
  \/ QueryReturn
  \/ Cancel
  \/ ProcessChunksCall
  \/ ClusterBegin
  \/ MergeIteration
  \/ ClusterReturn
  \/ ClusterPanic
  \/ SelectStep
  \/ FinalStep
  \/ CallReturn
  \/ SetConfigBegin
  \/ SetConfigStep
  \/ GetConfigCall

SpecBroker == InitBroker /\ [][NextBroker]_vars

\* ------------------------------------------------------------------ MMRRerank
\* the chunk lists handed to MMRRerank: ids are the input positions
RerankInputs ==
  {Candidates(k) : k \in SeqsUpTo({E1, V43, NegE1} \X {1, 2, 3}, MaxCandidates)}

\* the lambda (tenths) and targetK arguments of MMRRerank
RerankLambdas == {0, 5, 10}

RerankTargets == {1, 2}

\* MMRRerank(chunks, lambda, targetK): NewMMR(cfg).Rerank(chunks)
MMRRerank ==
  /\ mmrpc = "idle"
  /\ \E input \in RerankInputs, lambda \in RerankLambdas, targetK \in RerankTargets :
       /\ mmrIn' = input
       /\ mmrCfg' = NewMMR([Lambda |-> lambda, TargetK |-> targetK])
       /\ mmrOut' \in Rerank(NewMMR([Lambda |-> lambda, TargetK |-> targetK]), input)
  /\ mmrpc' = "done"
  /\ UNCHANGED <<cvars, broker, svars, rvars, xvars>>

NextMMR == MMRRerank

SpecMMR == Init /\ [][NextMMR]_vars

\* ------------------------------------------------------- Server.handleRetrieve
\* the brokerCfg the serve command builds from its flags
ServerCfgs ==
  [OverFetchK : {3, 50}, TargetK : {2, 8}, ClusterThreshold : {15},
   ClusterLinkage : {"average"}, SelectionStrategy : {"score"},
   EnableMMR : BOOLEAN, MMRLambda : {5},
   IncludeEmbeddings : {FALSE}, IncludeMetadata : {TRUE}]

\* the decoded JSON bodies: a field left out of the body is its zero value
RetrieveRequests ==
  [Query : {"", "q"}, QueryEmbedding : {<<>>}, OverFetchK : {0, 4}, TargetK : {0, 1},
   Threshold : {0, 25}, Lambda : {0, 7}]

\* the request carries at least one override
HasOverride(r) == r.OverFetchK > 0 \/ r.TargetK > 0 \/ r.Threshold > 0 \/ r.Lambda > 0

\* "Override broker config if specified in request": the cfg handed to SetConfig
OverrideConfig(cfg, r) ==
  [cfg EXCEPT
     !.OverFetchK = IF r.OverFetchK > 0 THEN r.OverFetchK ELSE cfg.OverFetchK,
     !.TargetK = IF r.TargetK > 0 THEN r.TargetK ELSE cfg.TargetK,
     !.ClusterThreshold = IF r.Threshold > 0 THEN r.Threshold ELSE cfg.ClusterThreshold,
     !.MMRLambda = IF r.Lambda > 0 THEN r.Lambda ELSE cfg.MMRLambda]

\* the broker after the override block of handleRetrieve
AfterOverride(b, r) ==
  IF HasOverride(r) THEN SetConfig(b, OverrideConfig(b.cfg, r)) ELSE b

\* the serve command has built its broker and serves requests
InitServer ==
  /\ InitCluster
  /\ InitCall
  /\ InitMMR
  /\ broker \in {NewBroker(TRUE, cfg) : cfg \in ServerCfgs}
  /\ srvpc = "idle"
  /\ srvStartCfg = broker.cfg
  /\ srvReq = NoRetrieveRequest
  /\ srvUsed = broker
  /\ InitNoCache
  /\ InitNoIngest

\* one POST /v1/retrieve: a body without query is answered 400; otherwise the
\* overrides are written to the shared broker with SetConfig and Retrieve runs
\* against the broker as it then is
handleRetrieve ==
  \E r \in RetrieveRequests :
    /\ srvReq' = r
    /\ IF r.Query = "" /\ Len(r.QueryEmbedding) = 0
         THEN /\ srvpc' = "rejected"
              /\ UNCHANGED <<broker, srvUsed>>
         ELSE /\ srvpc' = "handled"
              /\ broker' = AfterOverride(broker, r)
              /\ srvUsed' = AfterOverride(broker, r)
    /\ UNCHANGED <<cvars, svars, rvars, mvars, srvStartCfg, kvars, ivars>>

NextServer == handleRetrieve

SpecServer == InitServer /\ [][NextServer]_vars

\* ---------------------------------------------------------- MemoryCache calls
\* the keys the callers use (one byte each) and the lengths of their values
Keys == {"a", "b", "c"}

KeyLen(key) == 1

ValueLens == {1, 3, 5}

\* the configurations handed to NewMemoryCache
CacheCfgs == [MaxSize : {0, 2}, MaxSizeBytes : {0, 5}, DefaultTTL : {0}]

\* the touch order after a successful Get or Set of key
Touched(order, key) == <<key>> \o SelectSeq(order, LAMBDA k : k # key)

\* NewMemoryCache(cfg) has been called
InitCache ==
  /\ InitCluster
  /\ broker = NewBroker(FALSE, DefaultBrokerConfig)
  /\ InitCall
  /\ InitMMR
  /\ InitNoServer
  /\ cache \in {NewMemoryCache(cfg) : cfg \in CacheCfgs}
  /\ touch = <<>>
  /\ cop = NoCacheCall
  /\ InitNoIngest

\* c.Set(ctx, key, value, ttl)
CacheSet ==
  /\ \E key \in Keys, valueLen \in ValueLens, ttl \in {0, 1} :
       LET r == Set(cache, key, KeyLen(key) + valueLen, ttl)
       IN  /\ cache' = r.cache
           /\ touch' = IF r.res = "ok" THEN Touched(touch, key) ELSE touch
           /\ cop' = [op |-> "set", key |-> key, res |-> r.res, evicted |-> r.evicted,
                      full |-> (key \notin ItemKeys(cache)
                                /\ Len(cache.lru) = cache.cfg.MaxSize)]
  /\ UNCHANGED <<cvars, broker, svars, rvars, mvars, hvars, ivars>>

\* c.Get(ctx, key)
CacheGet ==
  /\ \E key \in Keys :
       LET r == Get(cache, key)
       IN  /\ cache' = r.cache
           /\ touch' = IF r.res = "ok" THEN Touched(touch, key) ELSE touch
           /\ cop' = [op |-> "get", key |-> key, res |-> r.res, evicted |-> <<>>,
                      full |-> FALSE]
  /\ UNCHANGED <<cvars, broker, svars, rvars, mvars, hvars, ivars>>

\* c.Delete(ctx, key)
CacheDelete ==
  /\ \E key \in Keys :
       LET r == Delete(cache, key)
       IN  /\ cache' = r.cache
           /\ cop' = [op |-> "delete", key |-> key, res |-> r.res, evicted |-> <<>>,
                      full |-> FALSE]
  /\ UNCHANGED <<touch, cvars, broker, svars, rvars, mvars, hvars, ivars>>

\* c.Clear(ctx)
CacheClear ==
  /\ cache' = Clear(cache)
  /\ cop' = [op |-> "clear", key |-> "", res |-> "ok", evicted |-> <<>>, full |-> FALSE]
  /\ UNCHANGED <<touch, cvars, broker, svars, rvars, mvars, hvars, ivars>>

\* the ticker of cleanupLoop fires: c.cleanup()
CacheCleanup ==
  /\ cache' = cleanup(cache)
  /\ cop' = [op |-> "cleanup", key |-> "", res |-> "ok", evicted |-> <<>>, full |-> FALSE]
  /\ UNCHANGED <<touch, cvars, broker, svars, rvars, mvars, hvars, ivars>>

\* time passes the ExpiresAt of an entry: Entry.IsExpired is true from now on
EntryExpires ==
  /\ \E i \in 1..Len(cache.lru) :
       /\ cache.lru[i].Expires
       /\ ~cache.lru[i].Expired
       /\ cache' = [cache EXCEPT !.lru[i].Expired = TRUE]
  /\ UNCHANGED <<touch, cop, cvars, broker, svars, rvars, mvars, hvars, ivars>>

NextCache ==
  \/ CacheSet
  \/ CacheGet
  \/ CacheDelete
  \/ CacheClear
  \/ CacheCleanup
  \/ EntryExpires

SpecCache == InitCache /\ [][NextCache]_vars

\* ----------------------------------------------------- Pipeline.IngestReader
\* the longest input, in lines
MaxLines == 4

\* the configurations handed to NewPipeline (all fields positive)
IngestCfgs == [BatchSize : {1, 2}, Workers : {1, 2}, ChannelBuffer : {1, 3}]

\* the readers handed to IngestReader: lines that parse to a vector or do not
IngestInputs == SeqsUpTo({"vec", "bad"}, MaxLines)

\* the capacity of batchCh
BatchCap == icfg.Workers * 2

\* the frame of an ingest step
IngestFrame == UNCHANGED <<cvars, broker, svars, rvars, mvars, hvars, kvars>>

\* NewPipeline(client, cfg) has been called
InitIngest ==
  /\ InitCluster
  /\ broker = NewBroker(FALSE, DefaultBrokerConfig)
  /\ InitCall
  /\ InitMMR
  /\ InitNoServer
  /\ InitNoCache
  /\ \E cfg \in IngestCfgs : PipelineIdle(cfg)

\* IngestReader up to workerWg.Wait(): the channels are made and the reader, the
\* batcher and the workers started
IngestReaderCall ==
  /\ ipc = "idle"
  /\ ipc' = "running"
  /\ lines' \in IngestInputs
  /\ reader' = [pc |-> "scan", err |-> "none"]
  /\ batcher' = [pc |-> "select", batch |-> 0]
  /\ workers' = [w \in 1..icfg.Workers |-> [pc |-> "recv", held |-> 0]]
  /\ UNCHANGED <<icfg, ctxDone, vectorCh, batchCh, errCh, istats, ireturn>>
  /\ IngestFrame

\* the caller's context is cancelled while the call runs
CancelContext ==
  /\ ipc = "running"
  /\ ~ctxDone
  /\ ctxDone' = TRUE
  /\ UNCHANGED <<ipc, icfg, lines, vectorCh, batchCh, errCh, reader, batcher, workers,
                 istats, ireturn>>
  /\ IngestFrame

\* readVectors, loop head: the scanner ends (lines exhausted, or a read error at
\* any point); else the context is polled; else the line is skipped or parsed
\* and counted
ReaderScan ==
  /\ reader.pc = "scan"
  /\ \/ /\ lines = <<>>
        /\ reader' = [pc |-> "exit", err |-> "none"]
        /\ UNCHANGED <<lines, istats>>
     \/ /\ reader' = [pc |-> "exit", err |-> "read"]
        /\ UNCHANGED <<lines, istats>>
     \/ /\ lines # <<>>
        /\ lines' = Tail(lines)
        /\ IF ctxDone
             THEN /\ reader' = [pc |-> "exit", err |-> "ctx"]
                  /\ UNCHANGED istats
             ELSE IF Head(lines) = "bad"
               THEN UNCHANGED <<reader, istats>>
               ELSE /\ reader' = [reader EXCEPT !.pc = "send"]
                    /\ istats' = [istats EXCEPT !.TotalVectors = @ + 1]
  /\ UNCHANGED <<ipc, icfg, ctxDone, vectorCh, batchCh, errCh, batcher, workers, ireturn>>
  /\ IngestFrame

\* readVectors, "select { case out <- vec: case <-ctx.Done(): }"
ReaderSend ==
  /\ reader.pc = "send"
  /\ \/ /\ vectorCh.n < icfg.ChannelBuffer
        /\ vectorCh' = [vectorCh EXCEPT !.n = @ + 1]
        /\ reader' = [reader EXCEPT !.pc = "scan"]
     \/ /\ ctxDone
        /\ reader' = [pc |-> "exit", err |-> "ctx"]
        /\ UNCHANGED vectorCh
  /\ UNCHANGED <<ipc, icfg, lines, ctxDone, batchCh, errCh, batcher, workers, istats, ireturn>>
  /\ IngestFrame

\* the reader goroutine after readVectors: an error is offered to errCh and the
\* context cancelled; vectorCh is closed and wg.Done called
ReaderExit ==
  /\ reader.pc = "exit"
  /\ errCh' = IF reader.err # "none" /\ errCh = "none" THEN reader.err ELSE errCh
  /\ ctxDone' = (ctxDone \/ reader.err # "none")
  /\ vectorCh' = [vectorCh EXCEPT !.closed = TRUE]
  /\ reader' = [reader EXCEPT !.pc = "done"]
  /\ UNCHANGED <<ipc, icfg, lines, batchCh, batcher, workers, istats, ireturn>>
  /\ IngestFrame

\* batchVectors, the select: ctx.Done() is ready when the context is cancelled, the
\* receive from in when a vector is queued or the channel is closed
BatcherSelect ==
  /\ batcher.pc = "select"
  /\ \/ /\ ctxDone
        /\ batcher' = [batcher EXCEPT !.pc = IF batcher.batch > 0 THEN "flush" ELSE "exit"]
        /\ UNCHANGED vectorCh
     \/ /\ vectorCh.n > 0
        /\ vectorCh' = [vectorCh EXCEPT !.n = @ - 1]
        /\ batcher' = [batch |-> batcher.batch + 1,
                       pc |-> IF batcher.batch + 1 >= icfg.BatchSize THEN "send" ELSE "select"]
     \/ /\ vectorCh.n = 0
        /\ vectorCh.closed
        /\ batcher' = [batcher EXCEPT !.pc = IF batcher.batch > 0 THEN "flush" ELSE "exit"]
        /\ UNCHANGED vectorCh
  /\ UNCHANGED <<ipc, icfg, lines, ctxDone, batchCh, errCh, reader, workers, istats, ireturn>>
  /\ IngestFrame

\* batchVectors, "out <- batch": the full batch in the loop ("send"), or the
\* remaining batch before returning ("flush"); the send waits for room in batchCh
BatcherSend ==
  /\ batcher.pc \in {"send", "flush"}
  /\ Len(batchCh.q) < BatchCap
  /\ batchCh' = [batchCh EXCEPT !.q = Append(@, batcher.batch)]
  /\ batcher' = [batch |-> 0, pc |-> IF batcher.pc = "send" THEN "select" ELSE "exit"]
  /\ UNCHANGED <<ipc, icfg, lines, ctxDone, vectorCh, errCh, reader, workers, istats, ireturn>>
  /\ IngestFrame

\* the batcher goroutine after batchVectors: batchCh is closed and wg.Done called
BatcherExit ==
  /\ batcher.pc = "exit"
  /\ batchCh' = [batchCh EXCEPT !.closed = TRUE]
  /\ batcher' = [batcher EXCEPT !.pc = "done"]
  /\ UNCHANGED <<ipc, icfg, lines, ctxDone, vectorCh, errCh, reader, workers, istats, ireturn>>
  /\ IngestFrame

\* uploadWorker, "for batch := range batches": a batch is received, or the channel
\* is closed and drained and the worker returns
WorkerReceive(w) ==
  /\ workers[w].pc = "recv"
  /\ \/ /\ Len(batchCh.q) > 0
        /\ batchCh' = [batchCh EXCEPT !.q = Tail(@)]
        /\ workers' = [workers EXCEPT ![w] = [pc |-> "got", held |-> Head(batchCh.q)]]
     \/ /\ Len(batchCh.q) = 0
        /\ batchCh.closed
        /\ workers' = [workers EXCEPT ![w] = [pc |-> "done", held |-> 0]]
        /\ UNCHANGED batchCh
  /\ UNCHANGED <<ipc, icfg, lines, ctxDone, vectorCh, errCh, reader, batcher, istats, ireturn>>
  /\ IngestFrame

\* uploadWorker, the loop body: the worker returns when the context is cancelled;
\* else UpsertBatch succeeds or fails and the counters are updated
WorkerUpload(w) ==
  /\ workers[w].pc = "got"
  /\ IF ctxDone
       THEN /\ workers' = [workers EXCEPT ![w] = [pc |-> "done", held |-> 0]]
            /\ UNCHANGED istats
       ELSE /\ workers' = [workers EXCEPT ![w] = [pc |-> "recv", held |-> 0]]
            /\ \E ok \in BOOLEAN :
                 istats' = [istats EXCEPT
                              !.UploadedVectors = IF ok THEN @ + workers[w].held ELSE @,
                              !.FailedVectors = IF ok THEN @ ELSE @ + workers[w].held,
                              !.BatchesProcessed = @ + 1]
  /\ UNCHANGED <<ipc, icfg, lines, ctxDone, vectorCh, batchCh, errCh, reader, batcher, ireturn>>
  /\ IngestFrame

\* workerWg.Wait() and wg.Wait() are over: the error on errCh, if any, is returned
\* with the stats, and the deferred cancel runs
IngestReaderReturn ==
  /\ ipc = "running"
  /\ \A w \in 1..icfg.Workers : workers[w].pc = "done"
  /\ reader.pc = "done"
  /\ batcher.pc = "done"
  /\ ipc' = "returned"
  /\ ireturn' = errCh
  /\ errCh' = "none"
  /\ ctxDone' = TRUE
  /\ UNCHANGED <<icfg, lines, vectorCh, batchCh, reader, batcher, workers, istats>>
  /\ IngestFrame

ReaderStep == ReaderScan \/ ReaderSend \/ ReaderExit

BatcherStep == BatcherSelect \/ BatcherSend \/ BatcherExit

WorkerStep(w) == WorkerReceive(w) \/ WorkerUpload(w)

NextIngest ==
  \/ IngestReaderCall
  \/ CancelContext
  \/ ReaderScan
  \/ ReaderSend
  \/ ReaderExit
  \/ BatcherSelect
  \/ BatcherSend
  \/ BatcherExit
  \/ \E w \in 1..icfg.Workers : WorkerReceive(w)
  \/ \E w \in 1..icfg.Workers : WorkerUpload(w)
  \/ IngestReaderReturn

SpecIngest == InitIngest /\ [][NextIngest]_vars

\* the Go scheduler runs every goroutine that can take a step; the caller's
\* cancellation is under no obligation
IngestFairness ==
  /\ WF_vars(IngestReaderCall)
  /\ WF_vars(ReaderStep)
  /\ WF_vars(BatcherStep)
  /\ \A w \in {1, 2} : WF_vars(w <= icfg.Workers /\ WorkerStep(w))
  /\ WF_vars(IngestReaderReturn)

SpecIngestLive == SpecIngest /\ IngestFairness

\* ============================================================ claims

\* C1: two executions of ProcessChunks on the same chunk list under the same
\* configuration return the same chunks in the same order, also when MMR re-ranking
\* runs and candidates have equal MMR values.
C1_SameInputSameResult ==
  (kind = "process" /\ stage = "done" /\ runs = 1
     /\ first.status = "ok" /\ outcome.status = "ok")
    => outcome.Chunks = first.Chunks

\* C2: a Retrieve that started while no SetConfig was running completes having read
\* only the configuration in effect when it started: OverFetchK and IncludeMetadata,
\* the clusterer, the selector, and cfg with the MMR re-ranker of the last step.
C2_InFlightKeepsConfig ==
  (kind = "retrieve" /\ stage = "done" /\ cleanStart)
    => [obs EXCEPT !.final = FALSE] = ObsOf(b0)

\* C3: SetConfig is atomic for concurrent calls: a Retrieve or ProcessChunks that
\* reached its last step has read a clusterer, a selector and an MMR re-ranker that are
\* the ones built from the cfg it read, and GetConfig returns an installed config
\* (IncludeEmbeddings forced to true), never a half-written one.
C3_SetConfigAtomic ==
  /\ (kind \in {"retrieve", "process"} /\ stage = "done" /\ obs.final) =>
       /\ obs.cfg.IncludeEmbeddings
       /\ obs.clusterer = ClustererOf(obs.cfg)
       /\ obs.selector = SelectorOf(obs.cfg)
       /\ obs.mmr = MMROf(obs.cfg)
  /\ (kind = "getconfig" /\ stage = "done") => gotcfg.IncludeEmbeddings

\* C4: when the context was cancelled by the time a collaborator call returned
\* successfully, Retrieve ends with a cancellation error, and clustering has not run:
\* no clustering latency is recorded.
C4_CancelAbortsBeforeClustering ==
  (kind = "retrieve" /\ stage = "done" /\ cancelledAtReturn)
    => (outcome.status = "cancelled" /\ ~stats.ClusteringRecorded /\ cpc = "idle")

\* the non-empty embeddings of a list share one dimension
SharedDimension(cs) ==
  \A i, j \in 1..Len(cs) :
    (Len(cs[i].Embedding) > 0 /\ Len(cs[j].Embedding) > 0)
      => Len(cs[i].Embedding) = Len(cs[j].Embedding)

\* C5: for every input whose non-empty embeddings share one dimension, every
\* Threshold in (0, 2] and every linkage, Cluster never aborts with a runtime failure.
C5_ClusterNeverPanics ==
  (SharedDimension(orig) /\ ccfg.Threshold > 0 /\ ccfg.Threshold <= MaxDist) => cpc # "panic"

\* C6: when Cluster has returned, every chunk of the caller's list is as it was
\* before the call, its cluster_id included.
C6_InputUnchanged == cpc = "done" => chunks = orig

\* C7: when Retrieve or RetrieveWithFilter has returned, every field of the caller's
\* request other than IncludeEmbeddings has the value the caller gave it.
C7_RequestUnchanged ==
  (kind = "retrieve" /\ stage = "done")
    => [req EXCEPT !.IncludeEmbeddings = req0.IncludeEmbeddings] = req0

\* C8: under every configuration installed by NewBroker or SetConfig, a successful
\* ProcessChunks result has Returned <= min(TargetK, ClusterCount) when the
\* representatives (one per cluster) exceed TargetK, and Returned <= ClusterCount
\* otherwise.
C8_ReturnedBound ==
  (kind = "process" /\ stage = "done" /\ outcome.status = "ok" /\ outcome.Stats.Retrieved > 0) =>
    IF outcome.Stats.Clustered > broker.cfg.TargetK
      THEN outcome.Stats.Returned <= Min2(broker.cfg.TargetK, outcome.Stats.Clustered)
      ELSE outcome.Stats.Returned <= outcome.Stats.Clustered

\* the (cluster, member) places of a result that hold input position i
PlacesOf(res, i) ==
  {pl \in (1..Len(res.Clusters)) \X (1..Len(orig)) :
     /\ pl[2] <= Len(res.Clusters[pl[1]].Members)
     /\ res.Clusters[pl[1]].Members[pl[2]].ID = i}

\* C9: the clusters of a returned ClusterResult partition the input: every input
\* position is a member of exactly one cluster, every cluster has a member, and
\* ClusterCount <= InputCount.
C9_ClustersPartitionInput ==
  cpc = "done" =>
    /\ \A i \in 1..Len(orig) : Cardinality(PlacesOf(cresult, i)) = 1
    /\ \A c \in 1..Len(cresult.Clusters) :
         /\ Len(cresult.Clusters[c].Members) >= 1
         /\ \A m \in 1..Len(cresult.Clusters[c].Members) :
              cresult.Clusters[c].Members[m].ID \in 1..Len(orig)
    /\ cresult.ClusterCount = Len(cresult.Clusters)
    /\ cresult.InputCount = Len(orig)
    /\ cresult.ClusterCount <= cresult.InputCount

\* a returned result of the general path in which a merge has taken place
C9_Witness ==
  /\ cpc = "done"
  /\ Len(orig) = 3
  /\ cresult.ClusterCount = 2
  /\ activeCount = 2

\* C10: in every returned ClusterResult each member's cluster_id equals the id of
\* the cluster that contains it.
C10_MemberClusterID ==
  cpc = "done" =>
    \A c \in 1..Len(cresult.Clusters) :
      \A m \in 1..Len(cresult.Clusters[c].Members) :
        cresult.Clusters[c].Members[m].ClusterID = cresult.Clusters[c].ID

\* a returned result whose cluster 1 was formed by a merge
C10_Witness ==
  /\ cpc = "done"
  /\ Len(cresult.Clusters) = 2
  /\ cresult.Clusters[2].ID = 1
  /\ Len(cresult.Clusters[2].Members) = 2

\* the earliest input position among the members of cluster c of a result
EarliestMember(res, c) ==
  SetMin({res.Clusters[c].Members[m].ID : m \in 1..Len(res.Clusters[c].Members)})

\* C11: the cluster ids of a returned ClusterResult are exactly 0..ClusterCount-1, and
\* a cluster whose earliest member precedes another cluster's earliest member in the
\* input has the smaller id.
C11_IdsFollowEarliestMember ==
  cpc = "done" =>
    /\ {cresult.Clusters[c].ID : c \in 1..Len(cresult.Clusters)} = 0..(cresult.ClusterCount - 1)
    /\ \A c, d \in 1..Len(cresult.Clusters) :
         EarliestMember(cresult, c) < EarliestMember(cresult, d)
           => cresult.Clusters[c].ID < cresult.Clusters[d].ID

\* a returned result in which input positions 1 and 3 were merged around position 2
C11_Witness ==
  /\ cpc = "done"
  /\ Len(cresult.Clusters) = 2
  /\ Len(cresult.Clusters[1].Members) = 2
  /\ cresult.Clusters[1].Members[2].ID = 3
  /\ cresult.Clusters[2].Members[1].ID = 2

\* the least pairwise cosine distance of a chunk list is at least / more than bound
AllDistancesAtLeast(cs, bound) ==
  \A i, j \in 1..Len(cs) : i < j => CosineDistance(cs[i].Embedding, cs[j].Embedding) >= bound

AllDistancesAbove(cs, bound) ==
  \A i, j \in 1..Len(cs) : i < j => CosineDistance(cs[i].Embedding, cs[j].Embedding) > bound

\* C12 as stated: when every pairwise cosine distance of the input is greater than or
\* equal to Threshold, Cluster merges nothing and ClusterCount equals InputCount.
C12_NoMergeAtOrAboveThreshold ==
  (cpc = "done" /\ AllDistancesAtLeast(orig, ccfg.Threshold))
    => (cresult.ClusterCount = Len(orig) /\ cresult.InputCount = Len(orig))

\* C12 amended: when every pairwise cosine distance of the input is strictly greater
\* than Threshold, Cluster does not fail, merges nothing and ClusterCount equals
\* InputCount (a closest pair at exactly Threshold is merged).
C12_NoMergeAboveThreshold ==
  AllDistancesAbove(orig, ccfg.Threshold) =>
    /\ cpc # "panic"
    /\ cpc = "done" => (cresult.ClusterCount = Len(orig) /\ cresult.InputCount = Len(orig))

\* three chunks with embeddings, pairwise further apart than Threshold, returned as
\* three clusters by the general path
C12_Witness ==
  /\ cpc = "done"
  /\ Len(orig) = 3
  /\ \A i \in 1..3 : Len(orig[i].Embedding) > 0
  /\ AllDistancesAbove(orig, ccfg.Threshold)
  /\ activeCount = 3
  /\ cresult.ClusterCount = 3

\* all chunks of a list carry the same embedding
SameEmbedding(cs) == \A i \in 1..Len(cs) : cs[i].Embedding = cs[1].Embedding

\* an embedding is non-empty and has a non-zero component
NonZero(e) == \E d \in 1..Len(e) : e[d] # 0

\* Cluster was entered with MinClusters and MaxClusters disabled and is over
UnboundedCallOver ==
  /\ cpc \in {"done", "panic"}
  /\ Len(orig) >= 1
  /\ ccfg.Threshold > 0
  /\ ccfg.MinClusters = 0
  /\ ccfg.MaxClusters = 0

\* C13 as stated: when all n >= 1 input chunks carry the same embedding, Cluster
\* (Threshold > 0, MinClusters and MaxClusters disabled) returns exactly one cluster
\* holding all n chunks.
C13_SameEmbeddingOneCluster ==
  (UnboundedCallOver /\ SameEmbedding(orig)) =>
    /\ cpc = "done"
    /\ cresult.ClusterCount = 1
    /\ Len(cresult.Clusters[1].Members) = Len(orig)

\* C13 amended: when all n >= 1 input chunks carry the same embedding and that
\* embedding is non-empty with non-zero magnitude (or n = 1), Cluster returns exactly one
\* cluster holding all n chunks.
C13_SameNonZeroEmbeddingOneCluster ==
  (UnboundedCallOver /\ SameEmbedding(orig) /\ (Len(orig) = 1 \/ NonZero(orig[1].Embedding))) =>
    /\ cpc = "done"
    /\ cresult.ClusterCount = 1
    /\ Len(cresult.Clusters[1].Members) = Len(orig)

\* three chunks with one non-zero embedding, merged into one cluster by the loop
C13_Witness ==
  /\ UnboundedCallOver
  /\ Len(orig) = 3
  /\ SameEmbedding(orig)
  /\ NonZero(orig[1].Embedding)
  /\ activeCount = 1
  /\ cresult.ClusterCount = 1

\* the grouping Cluster makes of a chunk list in which every chunk has an embedding:
\* the set of the clusters' sets of chunk IDs ({} when the call fails)
GroupingOf(cs, cfg) ==
  IF Len(cs) <= 1 THEN {{cs[i].ID} : i \in 1..Len(cs)}
  ELSE LET p == MergeLoop(InitNodes(cs), Len(cs), cs, computeDistanceMatrix(cs), cfg)
       IN  IF p.next = "panic" THEN {}
           ELSE {{cs[p.nodes[k].members[m]].ID : m \in 1..Len(p.nodes[k].members)} :
                   k \in {k \in 1..Len(cs) : p.nodes[k].active}}

\* the chunks of a list that have an embedding, in input order
WithEmbedding(cs) == SelectSeq(cs, LAMBDA c : Len(c.Embedding) > 0)

\* the IDs of the members of cluster c of a result whose embedding is non-empty
EmbeddedMembers(res, c) ==
  {res.Clusters[c].Members[m].ID :
     m \in {m \in 1..Len(res.Clusters[c].Members) : Len(res.Clusters[c].Members[m].Embedding) > 0}}

\* C14: when at least one input chunk has a non-empty embedding, then for every
\* Threshold in (0, 2] and every linkage Cluster returns, every chunk with an empty
\* embedding ends in a cluster of size one, and the chunks with embeddings are grouped
\* exactly as Cluster groups them without the empty-embedding chunks.
C14_EmptyEmbeddingsIsolated ==
  (/\ UnboundedCallOver
   /\ ccfg.Threshold <= MaxDist
   /\ SharedDimension(orig)
   /\ HasEmbeddings(orig)) =>
    /\ cpc = "done"
    /\ \A c \in 1..Len(cresult.Clusters) :
         (\E m \in 1..Len(cresult.Clusters[c].Members) :
            Len(cresult.Clusters[c].Members[m].Embedding) = 0)
           => Len(cresult.Clusters[c].Members) = 1
    /\ {EmbeddedMembers(cresult, c) : c \in 1..Len(cresult.Clusters)} \ {{}}
         = GroupingOf(WithEmbedding(orig), ccfg)

\* the centroid of a cluster is the component-wise mean of its members' embeddings
\* (centroid sum / centroid n = sum of the members' components / number of members)
CentroidIsMean(cl) ==
  /\ \A m \in 1..Len(cl.Members) : Len(cl.Members[m].Embedding) = Len(cl.Centroid.sum)
  /\ \A d \in 1..Len(cl.Centroid.sum) :
       cl.Centroid.sum[d] * Len(cl.Members)
         = cl.Centroid.n * SumSeq([m \in 1..Len(cl.Members) |-> cl.Members[m].Embedding[d]])

\* C15: in every returned ClusterResult the centroid of each cluster formed by at
\* least one merge is the component-wise arithmetic mean of the embeddings of all its
\* members, whichever chunk is first in the input.
C15_CentroidIsMeanOfMembers ==
  cpc = "done" =>
    \A c \in 1..Len(cresult.Clusters) :
      Len(cresult.Clusters[c].Members) >= 2 => CentroidIsMean(cresult.Clusters[c])

PickedBefore(t) == [k \in 1..(t - 1) |-> mmrOut[k].ID]

\* the MMR value of candidate c in greedy step t of the call that returned mmrOut
StepValue(c, t) ==
  computeMMRScore(mmrCfg, c, PickedBefore(t), normalizeScores(mmrIn),
                  computeSimilarityMatrix(mmrIn))

\* the candidates not yet selected when step t starts
StepRemaining(t) == (1..Len(mmrIn)) \ Range(PickedBefore(t))

\* the greedy loop ran in the call that returned mmrOut
GreedyRan == mmrpc = "done" /\ Len(mmrIn) > mmrCfg.TargetK

\* C17 as stated: in each greedy MMR step the chosen chunk has the largest MMR value
\* among the candidates not yet selected, and among candidates sharing that largest
\* value the one with the smallest original index is chosen.
C17_LargestThenSmallestIndex ==
  GreedyRan =>
    \A t \in 1..Len(mmrOut) :
      \A d \in StepRemaining(t) :
        /\ StepValue(d, t) <= StepValue(mmrOut[t].ID, t)
        /\ StepValue(d, t) = StepValue(mmrOut[t].ID, t) => mmrOut[t].ID <= d

\* the scores of the chunks of cs are pairwise distinct
DistinctScores(cs) ==
  \A i, j \in 1..Len(cs) : i # j => cs[i].Score # cs[j].Score

\* C18: with lambda = 1 and more than TargetK chunks of pairwise distinct scores,
\* Rerank returns exactly TargetK chunks, in descending score order, each an input
\* chunk, and every input chunk left out scores below every chunk returned,
\* whatever the embeddings.
C18_PureRelevanceTopK ==
  (GreedyRan /\ mmrCfg.Lambda = LambdaUnit /\ DistinctScores(mmrIn)) =>
    /\ Len(mmrOut) = mmrCfg.TargetK
    /\ \A t \in 1..Len(mmrOut) : mmrOut[t] = mmrIn[mmrOut[t].ID]
    /\ \A t \in 1..(Len(mmrOut) - 1) : mmrOut[t].Score > mmrOut[t + 1].Score
    /\ \A i \in 1..Len(mmrIn) :
         (\A t \in 1..Len(mmrOut) : mmrOut[t].ID # i) =>
           \A t \in 1..Len(mmrOut) : mmrIn[i].Score < mmrOut[t].Score

\* lambda = 1, three chunks of distinct scores given in ascending order, two of them
\* with the same embedding, and the two best returned best first
C18_Witness ==
  /\ GreedyRan
  /\ mmrCfg.Lambda = LambdaUnit
  /\ mmrCfg.TargetK = 2
  /\ Len(mmrIn) = 3
  /\ mmrIn[1].Score < mmrIn[2].Score
  /\ mmrIn[2].Score < mmrIn[3].Score
  /\ mmrIn[2].Embedding = mmrIn[3].Embedding
  /\ Len(mmrOut) = 2
  /\ mmrOut[1].ID = 3
  /\ mmrOut[2].ID = 2

\* the place element i of rs takes when rs is sorted by score descending with a
\* stable sort: after every higher score and every earlier equal score
StableRank(rs, i) ==
  1 + Cardinality({j \in 1..Len(rs) :
                     \/ rs[j].Score > rs[i].Score
                     \/ rs[j].Score = rs[i].Score /\ j < i})

\* rs sorted by score descending with a stable sort
StableSortDescending(rs) ==
  [r \in 1..Len(rs) |-> rs[CHOOSE i \in 1..Len(rs) : StableRank(rs, i) = r]]

\* ProcessChunks returned normally, it did not run MMR and it had more than TargetK
\* representatives
TopKTrimmed ==
  /\ kind = "process"
  /\ stage = "done"
  /\ outcome.status = "ok"
  /\ ~(broker.cfg.EnableMMR /\ broker.mmr # <<>>)
  /\ Len(representatives) > broker.cfg.TargetK

\* C19 as stated: when MMR is not run and there are more than TargetK representatives,
\* the broker returns the first TargetK elements of the representatives sorted by
\* score descending with a stable sort (equal scores keep their cluster-id order).
C19_TopKOfStableSort ==
  TopKTrimmed =>
    outcome.Chunks = SubSeq(StableSortDescending(representatives), 1, broker.cfg.TargetK)

\* C20: Retrieve calls the retrieval collaborator only with a non-empty query vector.
\* A request with non-empty Query, empty QueryEmbedding and no embedding collaborator
\* wired ends with the configuration error; a request that has no query vector once
\* the embedding step is over ends with invalid-query; in both cases the retrieval
\* collaborator has not been called.
C20_QueryOnlyWithVector ==
  kind = "retrieve" =>
    /\ queried => Len(req.QueryEmbedding) > 0
    /\ (stage = "done" /\ req0.Query # "" /\ Len(req0.QueryEmbedding) = 0
          /\ ~broker.embedder) =>
         (outcome.status = "no-embedder" /\ ~queried)
    /\ (stage = "done" /\ Len(req.QueryEmbedding) = 0
          /\ outcome.status \notin {"no-embedder", "error", "cancelled"}) =>
         (outcome.status = "invalid-query" /\ ~queried)
    /\ (stage = "done" /\ outcome.status \in {"no-embedder", "invalid-query"}) =>
         (~queried /\ Len(req.QueryEmbedding) = 0)

\* a text query whose embedding came back empty has ended with invalid-query
C20_Witness ==
  /\ kind = "retrieve"
  /\ stage = "done"
  /\ req0.Query # ""
  /\ Len(req0.QueryEmbedding) = 0
  /\ broker.embedder
  /\ Len(req.QueryEmbedding) = 0
  /\ outcome.status = "invalid-query"
  /\ ~queried

\* C21 as stated: an override supplied with one /v1/retrieve request applies to that
\* request only: the shared broker's configuration stays what it was when the server
\* started, and a request without override is processed with that configuration.
C21_OverrideIsPerRequest ==
  /\ broker.cfg = srvStartCfg
  /\ (srvpc = "handled" /\ ~HasOverride(srvReq)) => srvUsed.cfg = srvStartCfg

\* the keys stored in the cache, in the order of their last successful Get or Set,
\* latest first
PresentByTouch == SelectSeq(touch, LAMBDA k : k \in ItemKeys(cache))

\* this step is a successful Set of a key that was absent, on a cache that held
\* MaxSize entries
SetOnFullCache ==
  /\ cop'.op = "set"
  /\ cop'.res = "ok"
  /\ cop'.key \notin ItemKeys(cache)
  /\ cop'.key \in ItemKeys(cache')
  /\ Len(cache.lru) = cache.cfg.MaxSize

\* C22 as stated: a Set of an absent key on a cache holding MaxSize entries evicts
\* exactly one entry, the one least recently touched by a successful Get or a Set,
\* and every other entry is still present afterwards.
C22_EvictsExactlyTheOldest ==
  [][SetOnFullCache =>
       /\ cop'.evicted = <<PresentByTouch[Len(PresentByTouch)]>>
       /\ ItemKeys(cache') =
            (ItemKeys(cache) \ {PresentByTouch[Len(PresentByTouch)]}) \cup {cop'.key}]_vars

\* C22 amended: such a Set evicts at least one entry; the entries evicted are the
\* least recently touched ones, oldest first; every other entry is still present
\* afterwards; and exactly one entry is evicted when no byte limit is configured
\* (MaxSizeBytes = 0).
C22_EvictsOldestFirst ==
  [][SetOnFullCache =>
       /\ Len(cop'.evicted) >= 1
       /\ Len(cop'.evicted) <= Len(PresentByTouch)
       /\ \A i \in 1..Len(cop'.evicted) :
            cop'.evicted[i] = PresentByTouch[Len(PresentByTouch) - i + 1]
       /\ ItemKeys(cache') = (ItemKeys(cache) \ Range(cop'.evicted)) \cup {cop'.key}
       /\ cache.cfg.MaxSizeBytes = 0 => Len(cop'.evicted) = 1]_vars

\* a Set of a third key on a full cache of two entries has evicted one of them and
\* kept the other
C22_Witness ==
  /\ cop.op = "set"
  /\ cop.res = "ok"
  /\ cop.full
  /\ cache.cfg.MaxSize = 2
  /\ Len(cop.evicted) = 1
  /\ Len(cache.lru) = 2
  /\ cache.lru[1].Key = cop.key
  /\ cache.lru[2].Key # cop.evicted[1]

\* C23 as stated: when MaxSizeBytes > 0, Stats.SizeBytes never exceeds MaxSizeBytes,
\* whatever sequence of Set, Get, Delete, Clear and expiry cleanup has run.
C23_SizeBytesWithinLimit ==
  cache.cfg.MaxSizeBytes > 0 => cache.stats.SizeBytes <= cache.cfg.MaxSizeBytes

\* the pairs (i, j), i < j, of active clusters before a pass of the merging loop
ActivePairs ==
  {p \in (1..Len(nodes)) \X (1..Len(nodes)) :
     p[1] < p[2] /\ nodes[p[1]].active /\ nodes[p[2]].active}

\* the linkage distance of the clusters of an active pair
PairDistance(p) == clusterDistance(nodes[p[1]], nodes[p[2]], distMatrix, ccfg.Linkage)

\* this step of Cluster performs a merge
MergeStep == cpc = "loop" /\ activeCount' = activeCount - 1

\* this step merges the pair p: the second cluster is deactivated, its members are
\* appended to the first, every other cluster is left alone
Merges(p) ==
  /\ nodes'[p[1]].active
  /\ ~nodes'[p[2]].active
  /\ nodes'[p[1]].members = nodes[p[1]].members \o nodes[p[2]].members
  /\ \A k \in 1..Len(nodes) : k \notin {p[1], p[2]} => nodes'[k] = nodes[k]

\* C24: whenever Cluster performs a merge, the merged pair (i, j), i < j, is an
\* active pair of minimum linkage distance among all active pairs, the one with the
\* smallest i and then the smallest j among the pairs at that minimum, and it is
\* merged into index i.
C24_MergesFirstClosestPair ==
  [][MergeStep =>
       \E p \in ActivePairs :
         /\ Merges(p)
         /\ \A q \in ActivePairs :
              /\ ~FracLess(PairDistance(q), PairDistance(p))
              /\ FracEq(PairDistance(q), PairDistance(p)) =>
                   (p[1] < q[1] \/ (p[1] = q[1] /\ p[2] <= q[2]))]_vars

\* chunks 1, 2 and 2, 3 are equally close and closer than 1, 3; the call has merged
\* 1 and 2 and left 3 alone
C24_Witness ==
  /\ cpc = "done"
  /\ Len(orig) = 3
  /\ Len(distMatrix) = 3
  /\ distMatrix[1][2] = distMatrix[2][3]
  /\ distMatrix[1][2] > 0
  /\ distMatrix[1][2] < distMatrix[1][3]
  /\ cresult.ClusterCount = 2
  /\ Len(cresult.Clusters[1].Members) = 2
  /\ cresult.Clusters[1].Members[1].ID = 1
  /\ cresult.Clusters[1].Members[2].ID = 2

\* the linkage distance of two returned clusters, from the cosine distances of
\* their members
ReturnedDistance(a, b) ==
  clusterDistance([members |-> [m \in 1..Len(a.Members) |-> a.Members[m].ID]],
                  [members |-> [m \in 1..Len(b.Members) |-> b.Members[m].ID]],
                  computeDistanceMatrix(orig), ccfg.Linkage)

\* every pair of returned clusters is further apart than Threshold
ReturnedClustersApart ==
  \A a, b \in 1..Len(cresult.Clusters) :
    a < b => FracLess(Whole(ccfg.Threshold),
                      ReturnedDistance(cresult.Clusters[a], cresult.Clusters[b]))

\* Cluster has returned more than one cluster with MinClusters and MaxClusters disabled
ReturnedSeveralUnbounded ==
  /\ cpc = "done"
  /\ ccfg.MinClusters = 0
  /\ ccfg.MaxClusters = 0
  /\ cresult.ClusterCount > 1

\* every merge joins two clusters whose linkage distance is at most Threshold
MergesWithinThreshold ==
  [][MergeStep =>
       \E p \in ActivePairs :
         Merges(p) /\ ~FracLess(Whole(ccfg.Threshold), PairDistance(p))]_vars

\* C25 as stated: every merge performed joins two clusters whose linkage distance
\* is at most Threshold, and when Cluster returns more than one cluster with
\* MinClusters and MaxClusters disabled, every pair of returned clusters has linkage
\* distance greater than Threshold.
C25_StopsExactlyAtThreshold ==
  MergesWithinThreshold /\ [](ReturnedSeveralUnbounded => ReturnedClustersApart)

\* C25 amended: every merge joins two clusters at linkage distance at most
\* Threshold, and the returned clusters are pairwise further apart than Threshold
\* when Threshold < 2 or some input chunk has an embedding (a list without any
\* embedding is returned as singletons, which are at distance 2.0, not above a
\* Threshold of 2.0).
C25_StopsAtThresholdBelowTwo ==
  /\ MergesWithinThreshold
  /\ []((ReturnedSeveralUnbounded /\ (ccfg.Threshold < MaxDist \/ HasEmbeddings(orig)))
          => ReturnedClustersApart)

\* three chunks with embeddings, two of them merged at a distance within Threshold
\* and the third left apart
C25_Witness ==
  /\ ReturnedSeveralUnbounded
  /\ Len(orig) = 3
  /\ \A i \in 1..3 : Len(orig[i].Embedding) > 0
  /\ activeCount = 2
  /\ cresult.ClusterCount = 2
  /\ ReturnedClustersApart

\* the largest similarity of candidate c to the chunks selected before step t
TrueMaxSimilarity(c, t) ==
  SetMax({computeSimilarityMatrix(mmrIn)[c][PickedBefore(t)[k]] : k \in 1..(t - 1)})

\* lambda * normalizedScore - (1 - lambda) * m for candidate c, in the unit of
\* computeMMRScore
MMRFormula(c, m) ==
  mmrCfg.Lambda * normalizeScores(mmrIn).num[c] * DistUnit
    - (LambdaUnit - mmrCfg.Lambda) * m * normalizeScores(mmrIn).den

\* C26 as stated: at every greedy step with a non-empty selected set, a candidate's
\* MMR value is lambda * normalizedScore - (1 - lambda) * m with m the true maximum
\* of its similarities to the chunks already selected, also when all of them are
\* negative.
C26_UsesTrueMaximum ==
  GreedyRan =>
    \A t \in 2..Len(mmrOut) :
      \A c \in StepRemaining(t) :
        StepValue(c, t) = MMRFormula(c, TrueMaxSimilarity(c, t))

\* C27: for an input of more than TargetK chunks, Rerank returns exactly TargetK
\* chunks, each of them the input chunk at some position, and no input position is
\* returned more than once.
C27_ExactlyTargetKDistinct ==
  GreedyRan =>
    /\ Len(mmrOut) = mmrCfg.TargetK
    /\ \A t \in 1..Len(mmrOut) :
         /\ mmrOut[t].ID \in 1..Len(mmrIn)
         /\ mmrOut[t] = mmrIn[mmrOut[t].ID]
    /\ \A t, u \in 1..Len(mmrOut) : t # u => mmrOut[t].ID # mmrOut[u].ID

\* three chunks, balanced lambda, TargetK 2: two different input positions returned
C27_Witness ==
  /\ GreedyRan
  /\ mmrCfg.Lambda = DefaultLambda
  /\ mmrCfg.TargetK = 2
  /\ Len(mmrIn) = 3
  /\ Len(mmrOut) = 2
  /\ mmrOut[1].ID # mmrOut[2].ID

\* input chunks i and j are within Threshold of each other (cosine distance)
Near(i, j) == computeDistanceMatrix(orig)[i][j] <= ccfg.Threshold

RECURSIVE ChainedTo(_)
\* the input positions reachable from the set S by chains of chunks in which each
\* consecutive pair is within Threshold
ChainedTo(S) ==
  LET T == S \cup {j \in 1..Len(orig) : \E i \in S : Near(i, j)}
  IN  IF T = S THEN S ELSE ChainedTo(T)

\* the returned cluster that holds input chunk i
ClusterHolding(i) ==
  CHOOSE c \in 1..Len(cresult.Clusters) :
    \E m \in 1..Len(cresult.Clusters[c].Members) : cresult.Clusters[c].Members[m].ID = i

\* Cluster has returned from a call with single linkage, Threshold < 2 and
\* MinClusters and MaxClusters disabled
SingleLinkageCallOver ==
  /\ cpc = "done"
  /\ ccfg.Linkage = "single"
  /\ ccfg.Threshold < MaxDist
  /\ ccfg.MinClusters = 0
  /\ ccfg.MaxClusters = 0

\* C28: under single linkage with Threshold < 2 and MinClusters and MaxClusters
\* disabled, two chunks end in the same cluster if and only if they are connected
\* by a chain of chunks whose consecutive cosine distances are at most Threshold
\* (a relation of the chunks alone, so the partition does not depend on the input
\* order).
C28_SingleLinkageIsChaining ==
  SingleLinkageCallOver =>
    \A i, j \in 1..Len(orig) :
      (ClusterHolding(i) = ClusterHolding(j)) <=> (j \in ChainedTo({i}))

\* three chunks in one cluster through a chain: the first and the last are further
\* apart than Threshold, each is within Threshold of the middle one
C28_Witness ==
  /\ SingleLinkageCallOver
  /\ Len(orig) = 3
  /\ \E i, j, k \in 1..3 :
       /\ {i, j, k} = {1, 2, 3}
       /\ Near(i, j)
       /\ Near(j, k)
       /\ ~Near(i, k)
  /\ cresult.ClusterCount = 1

\* C29 as stated: after any sequence of NewBroker and SetConfig calls the broker's
\* configuration has OverFetchK >= 1 and TargetK >= 1, and the TargetK of its MMR
\* re-ranker equals the broker's TargetK.
C29_EffectiveConfigPositive ==
  /\ broker.cfg.OverFetchK >= 1
  /\ broker.cfg.TargetK >= 1
  /\ broker.mmr # <<>> => broker.mmr[1].TargetK = broker.cfg.TargetK

\* the batcher waits at "out <- batch" with batchCh full and every worker gone
SendWithoutReceiver ==
  /\ batcher.pc \in {"send", "flush"}
  /\ Len(batchCh.q) >= BatchCap
  /\ \A w \in 1..icfg.Workers : workers[w].pc = "done"

\* C30 as stated: IngestReader always returns (the reader, the batcher and all
\* upload workers finish), and no goroutine is left blocked on a send to the batch
\* channel after the workers have exited.
C30_IngestReaderReturns ==
  /\ <>(ipc = "returned")
  /\ [](~SendWithoutReceiver)
====
